---- MODULE Spec2Model ----
(***************************************************************************)
(* A model of the conversation pipeline of chatgpt-export-explorer:        *)
(* canonicalization of a conversation tree (extract_longest_conversation), *)
(* the two notebook entry points that store the canonical transcript, the  *)
(* bounded-concurrency request orchestrator and the columns and embedding  *)
(* texts made from its results, the clustering cells of notebook 03, and   *)
(* the run of notebook 04, cell by cell, with its writes of a cluster      *)
(* solution to the SQLite store.                                           *)
(***************************************************************************)
EXTENDS Integers, Sequences, FiniteSets, TLC

\* ------------------------------------------------------------------ bounds
\* Largest number of nodes of an arbitrary forest mapping.
MaxNodes == 3
\* Largest create_time of a message (timestamps are 0..MaxTime, or None).
MaxTime == 1
\* Largest number of nodes of a single-chain mapping with messages of every role.
MaxChain == 3

\* Largest batch of (prompt, schema) pairs given to the orchestrator.
MaxItems == 3
\* Largest concurrency limit of a batch (the notebooks pass 24).
MaxLimit == 2
\* The number of attempts after which a request is recorded as failed.
MaxAttempts == 2
\* Largest number of conversations of an export given to the pipeline.
MaxConvs == 5
\* Largest number of times the pipeline notebook is run on the same export.
MaxRuns == 2
\* Largest target cluster count given to the clustering cell.
MaxK == 3
\* Largest export for which the default cluster count is computed.
MaxExport == 580
\* the longest conversation markdown, in characters
MaxMarkdown == 4
\* the largest character budget of a prompt
MaxBudget == 3
\* the most conversations of an export whose metrics inputs are enumerated
MaxPoints == 3
\* the largest distance of an embedding to a centroid
MaxDist == 1
\* the largest n_centroid_docs
MaxCentroidDocs == 2
\* the largest max_n_tags_per_cluster
MaxTagCap == 2
\* the most conversations of an export whose ids are enumerated
MaxRows == 3
\* the number of different conversation ids
MaxIds == 2
\* the most data-existence checks of one origin in flight at a time
MaxChecks == 3
\* the most ticks of the polling interval
MaxTicks == 3
\* the largest progress the back end reports before it is done
MaxProgress == 1
\* the most cluster data requests the topic map tab sends
MaxFetches == 4

\* ------------------------------------------------------------ option values
\* Python's None is the empty tuple, a present value x is <<x>>.
None == <<>>
Some(x) == <<x>>

\* The author roles of the export; "system" stands for every role that is
\* neither "user" nor "assistant".
Roles == {"user", "assistant", "system"}

Times == {None} \cup {Some(t) : t \in 0..MaxTime}

\* --------------------------------------------------------------- state
VARIABLES
    mapping,     \* the conversation's node mapping: node id -> node, ids 1..n in dict order
    pc,          \* position of the canonicalization run
    extracted,   \* what extract_longest_conversation returned (or that it raised)
    stored       \* the record the entry point stored for the conversation

canonVars == <<mapping, pc, extracted, stored>>

VARIABLES
    nItems,      \* N: the number of (prompt, schema) pairs of the batch
    limit,       \* C: max_parallel_requests
    nextItem,    \* the head of the work queue: the next pair to hand to a worker
    worker,      \* worker -> the pair whose request it has in flight, 0 when idle
    attempts,    \* pair -> the attempts made for it so far
    results,     \* the result list, pre-sized to N and written by index
    outcome,     \* pair -> "none", "ok" or "failed": how the service settled it
    orchPc,      \* "running", "returned" (the batch call returned), "mapped"
    summaries    \* conversation_summaries, the caller's list

orchVars == <<nItems, limit, nextItem, worker, attempts, results, outcome, orchPc, summaries>>

VARIABLES
    nConvs,      \* the number of conversations of the export
    runPc,       \* the cell of notebook 04 the run has reached
    runsStarted, \* how many times the notebook was started
    n_clusters,  \* n_clusters of the current run (0 before it is computed)
    clusters,    \* the clusters table as committed: [exists, rows]
    txn,         \* the rows inserted by db_conn's open transaction, not committed
    completed,   \* per completed run: the solution id and the rows it committed
    stageLog     \* the stages the current run has started, in order

storeVars == <<nConvs, runPc, runsStarted, n_clusters, clusters, txn, completed, stageLog>>

VARIABLES
    clusterPc,              \* the cell of notebook 03 the clustering has reached
    cluster_labels,         \* cluster_labels: row of conversation_embs_df -> its cluster
    conversation_cluster_df \* one record per cluster, as the metrics cell fills it

clusterVars == <<clusterPc, cluster_labels, conversation_cluster_df>>

VARIABLES
    enriched,    \* the columns added to the data frame from the parsed results
    text_list    \* the texts handed to generate_embeddings_for_texts

enrichVars == <<enriched, text_list>>

VARIABLES
    conversation_markdown,  \* row.conversation_markdown, a string as its characters
    max_chars,              \* MAX_CHARS_PER_SUMMARY, the character budget
    prompt_text,            \* the "text" of the user message of the prompt
    promptPc                \* "off", "row" (the row is at hand), "built"

promptVars == <<conversation_markdown, max_chars, prompt_text, promptPc>>

VARIABLES
    distances_to_centroid,  \* row -> distances_to_centroid[row, cluster of the row]
    conversation_tags,      \* row -> summarized_conversations_df["tags"] of its conversation
    n_centroid_docs,        \* the number of centroid documents per cluster
    max_n_tags_per_cluster  \* the number of tags kept per cluster

metricVars == <<distances_to_centroid, conversation_tags, n_centroid_docs, max_n_tags_per_cluster>>

VARIABLES
    conversation_ids,    \* conversation.get("conversation_id") of each conversation of the export
    conversations_table, \* the rows of the conversations table, in rowid order
    nextRow,             \* the row executemany hands to the statement next
    tablePc              \* "off", "connected", "created", "inserted", "updated"

tableVars == <<conversation_ids, conversations_table, nextRow, tablePc>>

VARIABLES
    current_id,  \* current_id of get_chain_from_node
    chain,       \* chain, the messages collected so far
    walkPc       \* "off", "walking", "returned", "raised" (KeyError)

walkVars == <<current_id, chain, walkPc>>

VARIABLES
    activeTab,       \* the store's activeTab
    hasData,         \* the store's hasData
    dataChecks,      \* the checkData calls of useDataCheck that await their response
    importChecks,    \* the checkData calls of ImportTab's effect that await their response
    backendHasData   \* what GET /has-data answers

appVars == <<activeTab, hasData, dataChecks, importChecks, backendHasData>>

VARIABLES
    isUploading,     \* ImportTab's isUploading
    uploadProgress,  \* ImportTab's uploadProgress
    uploadStatus,    \* ImportTab's uploadStatus
    pollInterval,    \* "none", "set" (setInterval was called), "cleared"
    ticks,           \* how often the interval has fired
    polls,           \* the getProcessingStatus calls in flight, each with its response
    finalChecks,     \* the polls that await checkDataExists after a final status
    processing,      \* what GET /processing-status answers
    uploadPc         \* "idle", "uploading", "polling", "failed"

uploadVars == <<isUploading, uploadProgress, uploadStatus, pollInterval, ticks, polls,
                finalChecks, processing, uploadPc>>

VARIABLES
    clusterSolutions,         \* the store's clusterSolutions: the solution ids
    activeClusterSolutionId,  \* the store's activeClusterSolutionId, None for null
    scatterplotView,          \* the store's scatterplotView
    clusterDataCache,         \* the store's clusterDataCache: cache key -> data
    requests,                 \* the cluster data requests TopicMapTab has sent, in order
    pending                   \* the requests whose promise is not settled

topicVars == <<clusterSolutions, activeClusterSolutionId, scatterplotView, clusterDataCache,
               requests, pending>>

vars == <<canonVars, orchVars, storeVars, clusterVars, enrichVars, promptVars, metricVars, tableVars, walkVars, appVars, uploadVars, topicVars>>

\* --------------------------------------------------- the inputs: mappings
\* A message payload: the author role and the create_time of a message.
Payloads(roles) == {[role |-> r, create_time |-> t] : r \in roles, t \in Times}

\* The message of node k with payload x; the id keeps the messages of
\* different nodes apart, as message["id"] does in the export.
MkMessage(k, x) ==
    IF x = None THEN None
    ELSE Some([id |-> k, role |-> x[1].role, create_time |-> x[1].create_time])

MkNode(k, par, ch, x) ==
    [parent |-> IF par = 0 THEN None ELSE Some(par), children |-> ch, message |-> MkMessage(k, x)]

OptionOf(S) == {None} \cup {Some(x) : x \in S}

PermsOf(S) == {s \in [1..Cardinality(S) -> S] : \A i, j \in 1..Cardinality(S) : s[i] = s[j] => i = j}

\* Parent functions of a forest on nodes 1..n: 0 is "no parent" (a root), a
\* parent precedes its children in dict order.
ParentFns(n) == {p \in [1..n -> 0..n] : \A k \in 1..n : p[k] < k}

Kids(p, k) == {c \in DOMAIN p : p[c] = k}

\* Every order of every node's child list.
ChildOrders(p) ==
    LET n == Cardinality(DOMAIN p)
        all == UNION {PermsOf(Kids(p, k)) : k \in 1..n}
    IN {f \in [1..n -> all] : \A k \in 1..n : f[k] \in PermsOf(Kids(p, k))}

\* The forest with parent function p, child lists ch and payloads x.
ForestMapping(p, ch, x) == [k \in DOMAIN p |-> MkNode(k, p[k], ch[k], x[k])]

\* The single chain 1 -> 2 -> ... -> n with payloads x.
ChainMapping(n, x) ==
    [k \in 1..n |-> MkNode(k, k - 1, IF k < n THEN <<k + 1>> ELSE <<>>, x[k])]

\* A mapping without a root: every node of the ring 1 -> 2 -> ... -> n -> 1
\* has a parent.
RootlessMapping(n, x) ==
    [k \in 1..n |-> MkNode(k, IF k = 1 THEN n ELSE k - 1, <<(k % n) + 1>>, x[k])]

\* One tree with two branches below its root, of BranchLengths[1] and
\* BranchLengths[2] messages, alternating user and assistant, create_time
\* never decreasing along a branch. The root (node 1) carries no message or a
\* system message; `first` is the branch listed first in its child list.
BranchLengths == <<3, 5>>
BranchHead(b) == IF b = 1 THEN 2 ELSE 2 + BranchLengths[1]
BranchNodes(b) == BranchHead(b)..(BranchHead(b) + BranchLengths[b] - 1)
BranchOf(k) == IF k \in BranchNodes(1) THEN 1 ELSE 2
BranchMapping(first, rootPayload) ==
    [k \in 1..(1 + BranchLengths[1] + BranchLengths[2]) |->
        IF k = 1
        THEN MkNode(1, 0, <<BranchHead(first), BranchHead(3 - first)>>, rootPayload)
        ELSE LET b == BranchOf(k)
                 pos == k - BranchHead(b)
             IN MkNode(k,
                       IF pos = 0 THEN 1 ELSE k - 1,
                       IF k + 1 \in BranchNodes(b) THEN <<k + 1>> ELSE <<>>,
                       Some([role |-> IF pos % 2 = 0 THEN "user" ELSE "assistant",
                             create_time |-> Some(IF pos < MaxTime THEN pos ELSE MaxTime)]))]

BranchMappings ==
    {BranchMapping(first, rp) : first \in {1, 2},
                                rp \in OptionOf(Payloads({"system"}))}

\* The keys the code reads of a node.
NodeKeys == {"parent", "children", "message"}

\* The node without one of its keys, and the mapping whose node k lacks it.
DropKey(node, key) == [f \in (DOMAIN node) \ {key} |-> node[f]]

MalformedMapping(m, k, key) == [m EXCEPT ![k] = DropKey(m[k], key)]

\* The mappings a run starts from: every forest on at most MaxNodes nodes
\* (every order of the child lists, every node with a null message or a user
\* message), every single chain of at most MaxChain nodes with messages of
\* every role, the rings without a root, the two-branch trees, and the
\* forests of user messages in which one node lacks one key.
IsInputMapping(m) ==
    \/ \E n \in 0..MaxNodes : \E p \in ParentFns(n) : \E ch \in ChildOrders(p) :
           \E x \in [1..n -> OptionOf(Payloads({"user"}))] : m = ForestMapping(p, ch, x)
    \/ \E n \in 1..MaxChain : \E x \in [1..n -> OptionOf(Payloads(Roles))] :
           m = ChainMapping(n, x)
    \/ \E n \in 1..MaxNodes : \E x \in [1..n -> OptionOf(Payloads({"user"}))] :
           m = RootlessMapping(n, x)
    \/ m \in BranchMappings
    \/ \E n \in 1..MaxNodes : \E p \in ParentFns(n) : \E ch \in ChildOrders(p) :
           \E k \in 1..n : \E key \in NodeKeys :
               m = MalformedMapping(
                       ForestMapping(p, ch, [j \in 1..n |->
                           Some([role |-> "user", create_time |-> Some(0)])]),
                       k, key)

\* ------------------------------------------- extract_longest_conversation
\* get_chain_from_node: follow children[0] from node_id to a node without
\* children, collecting the non-null messages.
\* A walk that ends at the first node whose message is null.
RECURSIVE get_chain_stop_at_null(_, _)
get_chain_stop_at_null(m, node_id) ==
    LET node == m[node_id]
    IN IF node.message = None THEN <<>>
       ELSE <<node.message[1]>>
                \o (IF node.children # <<>>
                    THEN get_chain_stop_at_null(m, node.children[1])
                    ELSE <<>>)

RECURSIVE get_chain_from_node(_, _)
get_chain_from_node(m, node_id) ==
    LET node == m[node_id]
        here == IF node.message # None THEN <<node.message[1]>> ELSE <<>>
    IN IF node.children # <<>>
       THEN here \o get_chain_from_node(m, node.children[1])
       ELSE here

\* The ids of the nodes with no parent, in dict order.
RECURSIVE RootsFrom(_, _)
RootsFrom(m, k) ==
    IF k > Len(m) THEN <<>>
    ELSE (IF m[k].parent = None THEN <<k>> ELSE <<>>) \o RootsFrom(m, k + 1)

root_nodes(m) == RootsFrom(m, 1)

all_chains(m) == [i \in 1..Len(root_nodes(m)) |-> get_chain_from_node(m, root_nodes(m)[i])]

\* A selection that takes the chain of the first root instead of the longest.
longest_chain_first_root(m) ==
    IF all_chains(m) = <<>> THEN <<>> ELSE all_chains(m)[1]

\* max(all_chains, key=len) if all_chains else []: the first chain of greatest length.
longest_chain(m) ==
    LET chains == all_chains(m)
    IN IF chains = <<>> THEN <<>>
       ELSE LET best == CHOOSE i \in 1..Len(chains) :
                            /\ \A j \in 1..Len(chains) : Len(chains[j]) <= Len(chains[i])
                            /\ \A j \in 1..(i - 1) : Len(chains[j]) < Len(chains[i])
            IN chains[best]

\* A sort key that puts a null create_time after every timestamp.
SortKey_NullLast(x) == IF x.create_time = None THEN MaxTime + 1 ELSE x.create_time[1]

\* The sort key: x["create_time"] or 0.
SortKey(x) == IF x.create_time = None THEN 0 ELSE x.create_time[1]

\* sorted(longest_chain, key=...): Python's sort is stable; an insertion
\* after the last element whose key is not greater keeps equal keys in order.
RECURSIVE InsertSorted(_, _)
InsertSorted(s, x) ==
    IF s = <<>> THEN <<x>>
    ELSE IF SortKey(s[Len(s)]) <= SortKey(x) THEN Append(s, x)
    ELSE Append(InsertSorted(SubSeq(s, 1, Len(s) - 1), x), s[Len(s)])

RECURSIVE SortedByCreateTime(_)
SortedByCreateTime(s) ==
    IF s = <<>> THEN <<>>
    ELSE InsertSorted(SortedByCreateTime(SubSeq(s, 1, Len(s) - 1)), s[Len(s)])

\* messages_df: a DataFrame made of no rows has no columns.
messages_df(m) == SortedByCreateTime(longest_chain(m))

\* The exception a subscript with a missing key raises: KeyError(key). Its
\* message is the key; it carries the id of no node.
KeyError(key) == Some([type |-> "KeyError", key |-> key, node_ids |-> {}])

\* The walk from node_id reads node["message"], then node["children"], of
\* every node on the first-child path: the first key that is missing.
RECURSIVE walk_key_error(_, _)
walk_key_error(m, node_id) ==
    LET node == m[node_id]
    IN IF "message" \notin DOMAIN node THEN KeyError("message")
       ELSE IF "children" \notin DOMAIN node THEN KeyError("children")
       ELSE IF node.children # <<>> THEN walk_key_error(m, node.children[1])
       ELSE None

\* The first exception of the list comprehensions: root_nodes reads
\* node["parent"] of every node, all_chains walks from every root in turn.
RECURSIVE first_walk_error(_, _)
first_walk_error(m, roots) ==
    IF roots = <<>> THEN None
    ELSE IF walk_key_error(m, Head(roots)) # None THEN walk_key_error(m, Head(roots))
    ELSE first_walk_error(m, Tail(roots))

key_error(m) ==
    IF \E k \in DOMAIN m : "parent" \notin DOMAIN m[k] THEN KeyError("parent")
    ELSE first_walk_error(m, root_nodes(m))

\* A subscript with a missing key ends the function with its KeyError;
\* messages_df["author"] raises KeyError on a frame without that column;
\* otherwise the frame is returned with the author_role column added.
extract_longest_conversation(m) ==
    IF key_error(m) # None
    THEN [raised |-> TRUE, rows |-> <<>>, error |-> key_error(m)]
    ELSE IF messages_df(m) = <<>>
    THEN [raised |-> TRUE, rows |-> <<>>, error |-> KeyError("author")]
    ELSE [raised |-> FALSE, rows |-> messages_df(m), error |-> None]

NotRun == [raised |-> FALSE, rows |-> <<>>, error |-> None]

\* longest_convo_chain_df.query("author_role=='assistant' | author_role=='user'")
filtered_convo_chain_df(rows) == SelectSeq(rows, LAMBDA x : x.role \in {"assistant", "user"})

\* The record notebook 02 appends for a conversation: raw_message_data and
\* conversation_markdown are both made from the filtered frame.
simplified_conversation_record(rows) ==
    [entry |-> "notebook02",
     raw |-> filtered_convo_chain_df(rows),
     markdown_of |-> filtered_convo_chain_df(rows)]

\* The record notebook 04 inserts into the conversations table:
\* raw_messages_data = messasges_df.to_json() and messages_markdown is
\* rendered from messasges_df, the frame as extract returned it.
cur_conversation_data(rows) ==
    [entry |-> "notebook04", raw |-> rows, markdown_of |-> rows]

InitCanon ==
    /\ IsInputMapping(mapping)
    /\ pc = "start"
    /\ extracted = NotRun
    /\ stored = <<>>
    /\ nItems = 0 /\ limit = 1 /\ nextItem = 1 /\ worker = <<0>> /\ attempts = <<>>
    /\ results = <<>> /\ outcome = <<>> /\ orchPc = "idle" /\ summaries = <<>>
    /\ nConvs = 1 /\ runPc = "off" /\ runsStarted = 0 /\ n_clusters = 0
    /\ clusters = [exists |-> FALSE, rows |-> {}] /\ txn = <<>> /\ completed = <<>> /\ stageLog = <<>>
    /\ clusterPc = "off" /\ cluster_labels = <<>> /\ conversation_cluster_df = <<>>
    /\ enriched = <<>> /\ text_list = <<>>
    /\ conversation_markdown = <<>> /\ max_chars = 1 /\ prompt_text = <<>> /\ promptPc = "off"
    /\ distances_to_centroid = <<>> /\ conversation_tags = <<>> /\ n_centroid_docs = 1 /\ max_n_tags_per_cluster = 1
    /\ conversation_ids = <<>> /\ conversations_table = <<>> /\ nextRow = 1 /\ tablePc = "off"
    /\ current_id = <<>> /\ chain = <<>> /\ walkPc = "off"
    /\ activeTab = "welcome" /\ hasData = FALSE /\ dataChecks = 0 /\ importChecks = 0 /\ backendHasData = FALSE
    /\ isUploading = FALSE /\ uploadProgress = 0 /\ uploadStatus = <<>> /\ pollInterval = "none" /\ ticks = 0 /\ polls = {} /\ finalChecks = 0 /\ processing = <<>> /\ uploadPc = "off"
    /\ clusterSolutions = <<>> /\ activeClusterSolutionId = <<>> /\ scatterplotView = "cluster" /\ clusterDataCache = <<>> /\ requests = <<>> /\ pending = {}

\* The entry point calls extract_longest_conversation on the mapping; an
\* exception leaves the loop, and the notebook cell, at once.
Extract ==
    /\ pc = "start"
    /\ extracted' = extract_longest_conversation(mapping)
    /\ pc' = IF extracted'.raised THEN "raised" ELSE "extracted"
    /\ UNCHANGED <<mapping, stored>>
    /\ UNCHANGED <<orchVars, storeVars, clusterVars, enrichVars, promptVars, metricVars, tableVars, walkVars, appVars, uploadVars, topicVars>>

Notebook02Store ==
    /\ pc = "extracted"
    /\ stored' = <<simplified_conversation_record(extracted.rows)>>
    /\ pc' = "stored"
    /\ UNCHANGED <<mapping, extracted>>
    /\ UNCHANGED <<orchVars, storeVars, clusterVars, enrichVars, promptVars, metricVars, tableVars, walkVars, appVars, uploadVars, topicVars>>

Notebook04Store ==
    /\ pc = "extracted"
    /\ stored' = <<cur_conversation_data(extracted.rows)>>
    /\ pc' = "stored"
    /\ UNCHANGED <<mapping, extracted>>
    /\ UNCHANGED <<orchVars, storeVars, clusterVars, enrichVars, promptVars, metricVars, tableVars, walkVars, appVars, uploadVars, topicVars>>

NextCanon == Extract \/ Notebook02Store \/ Notebook04Store

\* ------------------------------------- get_chain_from_node, step by step
\* The longest chain the model lets a walk collect; a walk on MaxNodes
\* nodes without a cycle collects no more than MaxNodes messages.
MaxWalk == MaxNodes + 2

\* The mappings in which every node has a message and no child or one
\* child, which is any id, a key of the mapping or not (MaxNodes + 1 is
\* none); node 1 is the root.
IsLinkMapping(m) ==
    \E n \in 1..MaxNodes : \E ch \in [1..n -> 0..(MaxNodes + 1)] :
        m = [k \in 1..n |->
                MkNode(k, k - 1, IF ch[k] = 0 THEN <<>> ELSE <<ch[k]>>,
                       Some([role |-> "user", create_time |-> Some(0)]))]

\* A walk that stays on a node without children.
next_id_stays_on_leaf(node, id) ==
    IF node.children # <<>> THEN Some(node.children[1]) ELSE Some(id)

\* current_id = children[0] if children else None
next_id(node, id) ==
    IF node.children # <<>> THEN Some(node.children[1]) ELSE None

\* get_chain_from_node(root): chain = [], current_id = node_id.
InitWalk ==
    /\ IsLinkMapping(mapping)
    /\ current_id = Some(1)
    /\ chain = <<>>
    /\ walkPc = "walking"
    /\ pc = "idle" /\ extracted = NotRun /\ stored = <<>>
    /\ nItems = 0 /\ limit = 1 /\ nextItem = 1 /\ worker = <<0>> /\ attempts = <<>>
    /\ results = <<>> /\ outcome = <<>> /\ orchPc = "idle" /\ summaries = <<>>
    /\ nConvs = 1 /\ runPc = "off" /\ runsStarted = 0 /\ n_clusters = 0
    /\ clusters = [exists |-> FALSE, rows |-> {}] /\ txn = <<>> /\ completed = <<>> /\ stageLog = <<>>
    /\ clusterPc = "off" /\ cluster_labels = <<>> /\ conversation_cluster_df = <<>>
    /\ enriched = <<>> /\ text_list = <<>>
    /\ conversation_markdown = <<>> /\ max_chars = 1 /\ prompt_text = <<>> /\ promptPc = "off"
    /\ distances_to_centroid = <<>> /\ conversation_tags = <<>> /\ n_centroid_docs = 1 /\ max_n_tags_per_cluster = 1
    /\ conversation_ids = <<>> /\ conversations_table = <<>> /\ nextRow = 1 /\ tablePc = "off"
    /\ activeTab = "welcome" /\ hasData = FALSE /\ dataChecks = 0 /\ importChecks = 0 /\ backendHasData = FALSE
    /\ isUploading = FALSE /\ uploadProgress = 0 /\ uploadStatus = <<>> /\ pollInterval = "none" /\ ticks = 0 /\ polls = {} /\ finalChecks = 0 /\ processing = <<>> /\ uploadPc = "off"
    /\ clusterSolutions = <<>> /\ activeClusterSolutionId = <<>> /\ scatterplotView = "cluster" /\ clusterDataCache = <<>> /\ requests = <<>> /\ pending = {}

\* One turn of `while current_id:`: mapping[current_id] raises KeyError
\* when the id is no key; otherwise the message is appended and the walk
\* moves to the first child, or to None.
WalkStep ==
    /\ walkPc = "walking"
    /\ current_id # None
    /\ Len(chain) < MaxWalk
    /\ IF current_id[1] \notin DOMAIN mapping
       THEN /\ walkPc' = "raised"
            /\ UNCHANGED <<current_id, chain>>
       ELSE /\ chain' = IF mapping[current_id[1]].message # None
                        THEN Append(chain, mapping[current_id[1]].message[1])
                        ELSE chain
            /\ current_id' = next_id(mapping[current_id[1]], current_id[1])
            /\ UNCHANGED walkPc
    /\ UNCHANGED <<canonVars, orchVars, storeVars, clusterVars, enrichVars, promptVars, metricVars, tableVars, appVars, uploadVars, topicVars>>

\* current_id is None: the loop ends and the function returns chain.
WalkReturns ==
    /\ walkPc = "walking"
    /\ current_id = None
    /\ walkPc' = "returned"
    /\ UNCHANGED <<current_id, chain>>
    /\ UNCHANGED <<canonVars, orchVars, storeVars, clusterVars, enrichVars, promptVars, metricVars, tableVars, appVars, uploadVars, topicVars>>

NextWalk == WalkStep \/ WalkReturns

\* ------------------------------------------------------ the front end
TabValues == {"welcome", "upload", "topic-map"}

\* The checks that a change of activeTab to `value` starts: useDataCheck's
\* effect runs checkData when the new tab is "upload" or "welcome", and the
\* effect of ImportTab, which is mounted on "upload", runs its own.
starts_data_check(value) == value \in {"upload", "welcome"}

starts_import_check(value) == value = "upload"

\* if (!hasData && value !== "upload" && value !== "welcome") return;
handleTabChange_refused(value) ==
    ~hasData /\ value # "upload" /\ value # "welcome"

\* The app as it is mounted: the store's initial state, and the check that
\* useDataCheck starts on the welcome tab.
InitApp ==
    /\ activeTab = "welcome"
    /\ hasData = FALSE
    /\ dataChecks = 1
    /\ importChecks = 0
    /\ backendHasData = FALSE
    /\ mapping = <<>> /\ pc = "idle" /\ extracted = NotRun /\ stored = <<>>
    /\ nItems = 0 /\ limit = 1 /\ nextItem = 1 /\ worker = <<0>> /\ attempts = <<>>
    /\ results = <<>> /\ outcome = <<>> /\ orchPc = "idle" /\ summaries = <<>>
    /\ nConvs = 1 /\ runPc = "off" /\ runsStarted = 0 /\ n_clusters = 0
    /\ clusters = [exists |-> FALSE, rows |-> {}] /\ txn = <<>> /\ completed = <<>> /\ stageLog = <<>>
    /\ clusterPc = "off" /\ cluster_labels = <<>> /\ conversation_cluster_df = <<>>
    /\ enriched = <<>> /\ text_list = <<>>
    /\ conversation_markdown = <<>> /\ max_chars = 1 /\ prompt_text = <<>> /\ promptPc = "off"
    /\ distances_to_centroid = <<>> /\ conversation_tags = <<>> /\ n_centroid_docs = 1 /\ max_n_tags_per_cluster = 1
    /\ conversation_ids = <<>> /\ conversations_table = <<>> /\ nextRow = 1 /\ tablePc = "off"
    /\ current_id = <<>> /\ chain = <<>> /\ walkPc = "off"
    /\ isUploading = FALSE /\ uploadProgress = 0 /\ uploadStatus = <<>> /\ pollInterval = "none" /\ ticks = 0 /\ polls = {} /\ finalChecks = 0 /\ processing = <<>> /\ uploadPc = "off"
    /\ clusterSolutions = <<>> /\ activeClusterSolutionId = <<>> /\ scatterplotView = "cluster" /\ clusterDataCache = <<>> /\ requests = <<>> /\ pending = {}

\* Tabs onChange with a tab that is not the active one: handleTabChange,
\* and the effects that run when activeTab has changed.
handleTabChange(value) ==
    /\ value # activeTab
    /\ ~handleTabChange_refused(value)
    /\ activeTab' = value
    /\ dataChecks' = IF starts_data_check(value) THEN dataChecks + 1 ELSE dataChecks
    /\ importChecks' = IF starts_import_check(value) THEN importChecks + 1 ELSE importChecks
    /\ dataChecks' <= MaxChecks
    /\ importChecks' <= MaxChecks
    /\ UNCHANGED <<hasData, backendHasData>>
    /\ UNCHANGED <<canonVars, orchVars, storeVars, clusterVars, enrichVars, promptVars, metricVars, tableVars, walkVars, uploadVars, topicVars>>

\* checkDataExists() of useDataCheck resolves: response.data, or false when
\* the request failed; setHasData(exists).
DataCheckResolves ==
    /\ dataChecks > 0
    /\ \E exists \in {backendHasData, FALSE} : hasData' = exists
    /\ dataChecks' = dataChecks - 1
    /\ UNCHANGED <<activeTab, importChecks, backendHasData>>
    /\ UNCHANGED <<canonVars, orchVars, storeVars, clusterVars, enrichVars, promptVars, metricVars, tableVars, walkVars, uploadVars, topicVars>>

\* checkDataExists() of ImportTab's effect resolves; setHasData(result).
ImportCheckResolves ==
    /\ importChecks > 0
    /\ \E result \in {backendHasData, FALSE} : hasData' = result
    /\ importChecks' = importChecks - 1
    /\ UNCHANGED <<activeTab, dataChecks, backendHasData>>
    /\ UNCHANGED <<canonVars, orchVars, storeVars, clusterVars, enrichVars, promptVars, metricVars, tableVars, walkVars, uploadVars, topicVars>>

\* The back end has processed an upload: /has-data answers true from now on.
BackendGetsData ==
    /\ ~backendHasData
    /\ backendHasData' = TRUE
    /\ UNCHANGED <<activeTab, hasData, dataChecks, importChecks>>
    /\ UNCHANGED <<canonVars, orchVars, storeVars, clusterVars, enrichVars, promptVars, metricVars, tableVars, walkVars, uploadVars, topicVars>>

NextApp ==
    \/ \E value \in TabValues : handleTabChange(value)
    \/ DataCheckResolves
    \/ ImportCheckResolves
    \/ BackendGetsData

\* -------------------------------------------- ImportTab: upload, polling
\* A status of the back end, as getProcessingStatus returns it: status,
\* progress, and the message, which this model takes to tell the same.
Status(status, progress) == [status |-> status, progress |-> progress]

\* The messages ImportTab shows: its own two, or status.message.
Message(text, progress) == [text |-> text, progress |-> progress]

\* The response a poll has when getProcessingStatus throws.
Throws == Status("throws", 0)

IsFinal(status) == status.status \in {"complete", "error"}

\* ImportTab is mounted on the upload tab, no file was chosen yet.
InitUpload ==
    /\ activeTab = "upload"
    /\ hasData = FALSE
    /\ dataChecks = 0
    /\ importChecks = 0
    /\ backendHasData = FALSE
    /\ isUploading = FALSE
    /\ uploadProgress = 0
    /\ uploadStatus = Message("", 0)
    /\ pollInterval = "none"
    /\ ticks = 0
    /\ polls = {}
    /\ finalChecks = 0
    /\ processing = Status("idle", 0)
    /\ uploadPc = "idle"
    /\ mapping = <<>> /\ pc = "idle" /\ extracted = NotRun /\ stored = <<>>
    /\ nItems = 0 /\ limit = 1 /\ nextItem = 1 /\ worker = <<0>> /\ attempts = <<>>
    /\ results = <<>> /\ outcome = <<>> /\ orchPc = "idle" /\ summaries = <<>>
    /\ nConvs = 1 /\ runPc = "off" /\ runsStarted = 0 /\ n_clusters = 0
    /\ clusters = [exists |-> FALSE, rows |-> {}] /\ txn = <<>> /\ completed = <<>> /\ stageLog = <<>>
    /\ clusterPc = "off" /\ cluster_labels = <<>> /\ conversation_cluster_df = <<>>
    /\ enriched = <<>> /\ text_list = <<>>
    /\ conversation_markdown = <<>> /\ max_chars = 1 /\ prompt_text = <<>> /\ promptPc = "off"
    /\ distances_to_centroid = <<>> /\ conversation_tags = <<>> /\ n_centroid_docs = 1 /\ max_n_tags_per_cluster = 1
    /\ conversation_ids = <<>> /\ conversations_table = <<>> /\ nextRow = 1 /\ tablePc = "off"
    /\ current_id = <<>> /\ chain = <<>> /\ walkPc = "off"
    /\ clusterSolutions = <<>> /\ activeClusterSolutionId = <<>> /\ scatterplotView = "cluster" /\ clusterDataCache = <<>> /\ requests = <<>> /\ pending = {}

\* handleFileUpload up to `await uploadConversations(file)`.
handleFileUpload ==
    /\ uploadPc = "idle"
    /\ isUploading' = TRUE
    /\ uploadProgress' = 0
    /\ uploadStatus' = Message("Starting upload...", 0)
    /\ uploadPc' = "uploading"
    /\ UNCHANGED <<pollInterval, ticks, polls, finalChecks, processing>>
    /\ UNCHANGED appVars
    /\ UNCHANGED <<canonVars, orchVars, storeVars, clusterVars, enrichVars, promptVars, metricVars, tableVars, walkVars, topicVars>>

\* uploadConversations resolved, the back end has started to process the
\* file: startPollingStatus() sets the interval.
startPollingStatus ==
    /\ uploadPc = "uploading"
    /\ pollInterval' = "set"
    /\ processing' = Status("processing", 0)
    /\ uploadPc' = "polling"
    /\ UNCHANGED <<isUploading, uploadProgress, uploadStatus, ticks, polls, finalChecks>>
    /\ UNCHANGED appVars
    /\ UNCHANGED <<canonVars, orchVars, storeVars, clusterVars, enrichVars, promptVars, metricVars, tableVars, walkVars, topicVars>>

\* uploadConversations threw: the catch of handleFileUpload.
UploadFails ==
    /\ uploadPc = "uploading"
    /\ isUploading' = FALSE
    /\ uploadStatus' = Message("Upload failed!", 0)
    /\ uploadPc' = "failed"
    /\ UNCHANGED <<uploadProgress, pollInterval, ticks, polls, finalChecks, processing>>
    /\ UNCHANGED appVars
    /\ UNCHANGED <<canonVars, orchVars, storeVars, clusterVars, enrichVars, promptVars, metricVars, tableVars, walkVars, topicVars>>

\* The back end goes on with the file: more progress, or done, or failed.
BackendAdvances ==
    /\ uploadPc = "polling"
    /\ processing.status = "processing"
    /\ \/ /\ processing.progress < MaxProgress
          /\ processing' = Status("processing", processing.progress + 1)
          /\ UNCHANGED backendHasData
       \/ /\ processing' = Status("complete", MaxProgress + 1)
          /\ backendHasData' = TRUE
       \/ /\ processing' = Status("error", processing.progress)
          /\ UNCHANGED backendHasData
    /\ UNCHANGED <<isUploading, uploadProgress, uploadStatus, pollInterval, ticks, polls,
                   finalChecks, uploadPc>>
    /\ UNCHANGED <<activeTab, hasData, dataChecks, importChecks>>
    /\ UNCHANGED <<canonVars, orchVars, storeVars, clusterVars, enrichVars, promptVars, metricVars, tableVars, walkVars, topicVars>>

\* The interval fires: the callback calls getProcessingStatus(), whose
\* response is the status of the back end at that time, or an exception.
IntervalFires ==
    /\ pollInterval = "set"
    /\ ticks < MaxTicks
    /\ ticks' = ticks + 1
    /\ \E response \in {processing, Throws} :
           polls' = polls \cup {[tick |-> ticks + 1, response |-> response]}
    /\ UNCHANGED <<isUploading, uploadProgress, uploadStatus, pollInterval, finalChecks,
                   processing, uploadPc>>
    /\ UNCHANGED appVars
    /\ UNCHANGED <<canonVars, orchVars, storeVars, clusterVars, enrichVars, promptVars, metricVars, tableVars, walkVars, topicVars>>

\* The callback after `await getProcessingStatus()`: setUploadProgress and
\* setUploadStatus are called with whatever response has arrived.
poll_applies(poll) == poll.response # Throws

\* The response of a poll arrives, in any order with the others: the
\* callback goes on to its next await, or to its end.
PollResponds(poll) ==
    /\ poll \in polls
    /\ polls' = polls \ {poll}
    /\ IF poll.response = Throws
       THEN /\ pollInterval' = "cleared"
            /\ isUploading' = FALSE
            /\ UNCHANGED <<uploadProgress, uploadStatus, finalChecks>>
       ELSE /\ IF poll_applies(poll)
               THEN /\ uploadProgress' = poll.response.progress
                    /\ uploadStatus' = Message(poll.response.status, poll.response.progress)
               ELSE UNCHANGED <<uploadProgress, uploadStatus>>
            /\ IF IsFinal(poll.response)
               THEN /\ pollInterval' = "cleared"
                    /\ finalChecks' = finalChecks + 1
               ELSE UNCHANGED <<pollInterval, finalChecks>>
            /\ UNCHANGED isUploading
    /\ UNCHANGED <<ticks, processing, uploadPc>>
    /\ UNCHANGED appVars
    /\ UNCHANGED <<canonVars, orchVars, storeVars, clusterVars, enrichVars, promptVars, metricVars, tableVars, walkVars, topicVars>>

\* `await checkDataExists()` of a poll that saw a final status resolves:
\* setHasData(hasDataNow), setIsUploading(false).
FinalCheckResolves ==
    /\ finalChecks > 0
    /\ finalChecks' = finalChecks - 1
    /\ \E hasDataNow \in {backendHasData, FALSE} : hasData' = hasDataNow
    /\ isUploading' = FALSE
    /\ UNCHANGED <<uploadProgress, uploadStatus, pollInterval, ticks, polls, processing, uploadPc>>
    /\ UNCHANGED <<activeTab, dataChecks, importChecks, backendHasData>>
    /\ UNCHANGED <<canonVars, orchVars, storeVars, clusterVars, enrichVars, promptVars, metricVars, tableVars, walkVars, topicVars>>

NextUpload ==
    \/ handleFileUpload
    \/ startPollingStatus
    \/ UploadFails
    \/ BackendAdvances
    \/ IntervalFires
    \/ \E poll \in polls : PollResponds(poll)
    \/ FinalCheckResolves

\* ------------------------------------------- TopicMapTab: cluster data
\* The ids of the cluster solutions of the back end, as their characters;
\* an id may hold a hyphen.
SolutionIds == <<(<<"k">>), (<<"k", "-", "c">>)>>

\* The views: "cluster" and "document".
Views == {"cluster", "document"}

ViewChars(view) == IF view = "cluster" THEN <<"c">> ELSE <<"d">>

\* `${solutionId}-${view}`
cacheKey(solutionId, view) == solutionId \o <<"-">> \o ViewChars(view)

\* What the back end returns for a solution and a view:
\* getClustersInSolution(id) or getConversationsByClusterSolution(id).
DataOf(solutionId, view) == [solution |-> solutionId, view |-> view]

\* A cache that holds the new entry only.
setClusterDataCache_replace(cache, solutionId, view, data) ==
    [k \in {cacheKey(solutionId, view)} |-> data]

\* setClusterDataCache: {...state.clusterDataCache, [key]: data}
setClusterDataCache(cache, solutionId, view, data) ==
    [k \in DOMAIN cache \cup {cacheKey(solutionId, view)} |->
        IF k = cacheKey(solutionId, view) THEN data ELSE cache[k]]

\* The second effect of TopicMapTab, run with the values of a render: the
\* requests after it. It fetches when a solution is active and
\* clusterDataCache[cacheKey] is not there, whatever is in flight.
effect_requests(solutionId, view, cache, sent) ==
    IF solutionId # None /\ cacheKey(solutionId[1], view) \notin DOMAIN cache
    THEN Append(sent, [solution |-> solutionId[1], view |-> view])
    ELSE sent

\* The requests that the effect has added to those in flight.
effect_pending(sent, sentAfter, inFlight) ==
    IF Len(sentAfter) > Len(sent) THEN inFlight \cup {Len(sentAfter)} ELSE inFlight

\* TopicMapTab is mounted with the store's initial state; its first effect
\* has called getClusterSolutions().
InitTopicMap ==
    /\ clusterSolutions = <<>>
    /\ activeClusterSolutionId = None
    /\ scatterplotView = "cluster"
    /\ clusterDataCache = <<>>
    /\ requests = <<>>
    /\ pending = {}
    /\ activeTab = "welcome" /\ hasData = FALSE /\ dataChecks = 0 /\ importChecks = 0 /\ backendHasData = FALSE
    /\ mapping = <<>> /\ pc = "idle" /\ extracted = NotRun /\ stored = <<>>
    /\ nItems = 0 /\ limit = 1 /\ nextItem = 1 /\ worker = <<0>> /\ attempts = <<>>
    /\ results = <<>> /\ outcome = <<>> /\ orchPc = "idle" /\ summaries = <<>>
    /\ nConvs = 1 /\ runPc = "off" /\ runsStarted = 0 /\ n_clusters = 0
    /\ clusters = [exists |-> FALSE, rows |-> {}] /\ txn = <<>> /\ completed = <<>> /\ stageLog = <<>>
    /\ clusterPc = "off" /\ cluster_labels = <<>> /\ conversation_cluster_df = <<>>
    /\ enriched = <<>> /\ text_list = <<>>
    /\ conversation_markdown = <<>> /\ max_chars = 1 /\ prompt_text = <<>> /\ promptPc = "off"
    /\ distances_to_centroid = <<>> /\ conversation_tags = <<>> /\ n_centroid_docs = 1 /\ max_n_tags_per_cluster = 1
    /\ conversation_ids = <<>> /\ conversations_table = <<>> /\ nextRow = 1 /\ tablePc = "off"
    /\ current_id = <<>> /\ chain = <<>> /\ walkPc = "off"
    /\ isUploading = FALSE /\ uploadProgress = 0 /\ uploadStatus = <<>> /\ pollInterval = "none" /\ ticks = 0 /\ polls = {} /\ finalChecks = 0 /\ processing = <<>> /\ uploadPc = "off"

\* getClusterSolutions() resolves: setClusterSolutions(data),
\* setActiveClusterSolutionId(data[0].cluster_solution_id), and the second
\* effect runs.
SolutionsLoaded ==
    /\ clusterSolutions = <<>>
    /\ clusterSolutions' = SolutionIds
    /\ activeClusterSolutionId' = Some(SolutionIds[1])
    /\ requests' = effect_requests(activeClusterSolutionId', scatterplotView,
                                   clusterDataCache, requests)
    /\ pending' = effect_pending(requests, requests', pending)
    /\ UNCHANGED <<scatterplotView, clusterDataCache>>
    /\ UNCHANGED appVars
    /\ UNCHANGED <<canonVars, orchVars, storeVars, clusterVars, enrichVars, promptVars, metricVars, tableVars, walkVars, uploadVars>>

\* handleSolutionChange(value) of the Select, and the second effect.
handleSolutionChange(value) ==
    /\ clusterSolutions # <<>>
    /\ Some(value) # activeClusterSolutionId
    /\ Len(requests) < MaxFetches
    /\ activeClusterSolutionId' = Some(value)
    /\ requests' = effect_requests(activeClusterSolutionId', scatterplotView,
                                   clusterDataCache, requests)
    /\ pending' = effect_pending(requests, requests', pending)
    /\ UNCHANGED <<clusterSolutions, scatterplotView, clusterDataCache>>
    /\ UNCHANGED appVars
    /\ UNCHANGED <<canonVars, orchVars, storeVars, clusterVars, enrichVars, promptVars, metricVars, tableVars, walkVars, uploadVars>>

\* setScatterplotView(view) of the Radio.Group, and the second effect.
setScatterplotView(view) ==
    /\ view # scatterplotView
    /\ Len(requests) < MaxFetches
    /\ scatterplotView' = view
    /\ requests' = effect_requests(activeClusterSolutionId, scatterplotView',
                                   clusterDataCache, requests)
    /\ pending' = effect_pending(requests, requests', pending)
    /\ UNCHANGED <<clusterSolutions, activeClusterSolutionId, clusterDataCache>>
    /\ UNCHANGED appVars
    /\ UNCHANGED <<canonVars, orchVars, storeVars, clusterVars, enrichVars, promptVars, metricVars, tableVars, walkVars, uploadVars>>

\* The promise of request i resolves: .then calls setClusterDataCache with
\* the solution id and the view of the render that sent it; the cache is a
\* new object, so the second effect runs again.
FetchResolves(i) ==
    /\ i \in pending
    /\ Len(requests) < MaxFetches
    /\ clusterDataCache' =
           setClusterDataCache(clusterDataCache, requests[i].solution, requests[i].view,
                               DataOf(requests[i].solution, requests[i].view))
    /\ requests' = effect_requests(activeClusterSolutionId, scatterplotView,
                                   clusterDataCache', requests)
    /\ pending' = effect_pending(requests, requests', pending \ {i})
    /\ UNCHANGED <<clusterSolutions, activeClusterSolutionId, scatterplotView>>
    /\ UNCHANGED appVars
    /\ UNCHANGED <<canonVars, orchVars, storeVars, clusterVars, enrichVars, promptVars, metricVars, tableVars, walkVars, uploadVars>>

\* The promise of request i is rejected: .catch logs the error.
FetchFails(i) ==
    /\ i \in pending
    /\ pending' = pending \ {i}
    /\ UNCHANGED <<clusterSolutions, activeClusterSolutionId, scatterplotView,
                   clusterDataCache, requests>>
    /\ UNCHANGED appVars
    /\ UNCHANGED <<canonVars, orchVars, storeVars, clusterVars, enrichVars, promptVars, metricVars, tableVars, walkVars, uploadVars>>

NextTopicMap ==
    \/ SolutionsLoaded
    \/ \E i \in 1..Len(SolutionIds) : handleSolutionChange(SolutionIds[i])
    \/ \E view \in Views : setScatterplotView(view)
    \/ \E i \in pending : FetchResolves(i)
    \/ \E i \in pending : FetchFails(i)

\* ------------------------------------------------------ prompt of a row
\* The characters a conversation's markdown is made of.
Chars == {"a", "."}

\* Python's s[:n] for n >= 0: the first n characters, all of s when it is
\* shorter.
SliceTo(s, n) == SubSeq(s, 1, IF Len(s) < n THEN Len(s) ELSE n)

\* The marker "..." as its characters.
Ellipsis == <<".", ".", ".">>

\* A text that gets the marker only when characters were cut.
user_text_marker_when_cut(markdown, n) ==
    IF Len(markdown) > n THEN SliceTo(markdown, n) \o Ellipsis ELSE markdown

\* row.conversation_markdown[:MAX_CHARS_PER_SUMMARY] + "..."
user_text(markdown, n) == SliceTo(markdown, n) \o Ellipsis

InitPrompt ==
    /\ \E n \in 0..MaxMarkdown : conversation_markdown \in [1..n -> Chars]
    /\ max_chars \in 1..MaxBudget
    /\ prompt_text = <<>>
    /\ promptPc = "row"
    /\ mapping = <<>> /\ pc = "idle" /\ extracted = NotRun /\ stored = <<>>
    /\ nItems = 0 /\ limit = 1 /\ nextItem = 1 /\ worker = <<0>> /\ attempts = <<>>
    /\ results = <<>> /\ outcome = <<>> /\ orchPc = "idle" /\ summaries = <<>>
    /\ nConvs = 1 /\ runPc = "off" /\ runsStarted = 0 /\ n_clusters = 0
    /\ clusters = [exists |-> FALSE, rows |-> {}] /\ txn = <<>> /\ completed = <<>> /\ stageLog = <<>>
    /\ clusterPc = "off" /\ cluster_labels = <<>> /\ conversation_cluster_df = <<>>
    /\ enriched = <<>> /\ text_list = <<>>
    /\ distances_to_centroid = <<>> /\ conversation_tags = <<>> /\ n_centroid_docs = 1 /\ max_n_tags_per_cluster = 1
    /\ conversation_ids = <<>> /\ conversations_table = <<>> /\ nextRow = 1 /\ tablePc = "off"
    /\ current_id = <<>> /\ chain = <<>> /\ walkPc = "off"
    /\ activeTab = "welcome" /\ hasData = FALSE /\ dataChecks = 0 /\ importChecks = 0 /\ backendHasData = FALSE
    /\ isUploading = FALSE /\ uploadProgress = 0 /\ uploadStatus = <<>> /\ pollInterval = "none" /\ ticks = 0 /\ polls = {} /\ finalChecks = 0 /\ processing = <<>> /\ uploadPc = "off"
    /\ clusterSolutions = <<>> /\ activeClusterSolutionId = <<>> /\ scatterplotView = "cluster" /\ clusterDataCache = <<>> /\ requests = <<>> /\ pending = {}

\* The user message of one row's (messages, ConversationSummary) pair.
BuildPrompt ==
    /\ promptPc = "row"
    /\ prompt_text' = user_text(conversation_markdown, max_chars)
    /\ promptPc' = "built"
    /\ UNCHANGED <<conversation_markdown, max_chars>>
    /\ UNCHANGED <<canonVars, orchVars, storeVars, clusterVars, enrichVars, metricVars, tableVars, walkVars, appVars, uploadVars, topicVars>>

\* ------------------------------------------------ RequestOrchestrator
\* generate_completions_in_parallel: C workers consume the queue of pairs;
\* each sends the request of its pair, retries it on a failure until
\* MaxAttempts attempts were made, and writes the completion, or the failure
\* marker, into the result list at the pair's index.
\* One task per pair, all started at once, whatever the limit.
Workers_OnePerPair == 1..(IF nItems > limit THEN nItems ELSE limit)

Workers == 1..limit

\* The completion of pair i; its parsed payload is the answer to prompt i.
Completion(i) == Some([parsed |-> i])

\* The "no result" marker of a pair whose retries are exhausted.
FailureMarker == None

InFlight == {w \in Workers : worker[w] # 0}

InitOrch ==
    /\ nItems \in 0..MaxItems
    /\ limit \in 1..MaxLimit
    /\ nextItem = 1
    /\ worker = [w \in Workers |-> 0]
    /\ attempts = [i \in 1..nItems |-> 0]
    /\ results = [i \in 1..nItems |-> None]
    /\ outcome = [i \in 1..nItems |-> "none"]
    /\ orchPc = "running"
    /\ summaries = <<>>
    /\ mapping = <<>> /\ pc = "idle" /\ extracted = NotRun /\ stored = <<>>
    /\ nConvs = 1 /\ runPc = "off" /\ runsStarted = 0 /\ n_clusters = 0
    /\ clusters = [exists |-> FALSE, rows |-> {}] /\ txn = <<>> /\ completed = <<>> /\ stageLog = <<>>
    /\ clusterPc = "off" /\ cluster_labels = <<>> /\ conversation_cluster_df = <<>>
    /\ enriched = <<>> /\ text_list = <<>>
    /\ conversation_markdown = <<>> /\ max_chars = 1 /\ prompt_text = <<>> /\ promptPc = "off"
    /\ distances_to_centroid = <<>> /\ conversation_tags = <<>> /\ n_centroid_docs = 1 /\ max_n_tags_per_cluster = 1
    /\ conversation_ids = <<>> /\ conversations_table = <<>> /\ nextRow = 1 /\ tablePc = "off"
    /\ current_id = <<>> /\ chain = <<>> /\ walkPc = "off"
    /\ activeTab = "welcome" /\ hasData = FALSE /\ dataChecks = 0 /\ importChecks = 0 /\ backendHasData = FALSE
    /\ isUploading = FALSE /\ uploadProgress = 0 /\ uploadStatus = <<>> /\ pollInterval = "none" /\ ticks = 0 /\ polls = {} /\ finalChecks = 0 /\ processing = <<>> /\ uploadPc = "off"
    /\ clusterSolutions = <<>> /\ activeClusterSolutionId = <<>> /\ scatterplotView = "cluster" /\ clusterDataCache = <<>> /\ requests = <<>> /\ pending = {}

\* A worker that takes the head of the queue and leaves it there.
TakeItem_QueueNotAdvanced(w) ==
    /\ orchPc = "running"
    /\ worker[w] = 0
    /\ nextItem <= nItems
    /\ worker' = [worker EXCEPT ![w] = nextItem]
    /\ attempts' = [attempts EXCEPT ![nextItem] = 1]
    /\ nextItem' = IF \E v \in Workers : worker[v] = nextItem THEN nextItem + 1 ELSE nextItem
    /\ UNCHANGED <<nItems, limit, results, outcome, orchPc, summaries>>
    /\ UNCHANGED <<canonVars, storeVars, clusterVars, enrichVars, promptVars, metricVars, tableVars, walkVars, appVars, uploadVars, topicVars>>

\* An idle worker takes the next pair of the queue and sends its request.
TakeItem(w) ==
    /\ orchPc = "running"
    /\ worker[w] = 0
    /\ nextItem <= nItems
    /\ worker' = [worker EXCEPT ![w] = nextItem]
    /\ attempts' = [attempts EXCEPT ![nextItem] = 1]
    /\ nextItem' = nextItem + 1
    /\ UNCHANGED <<nItems, limit, results, outcome, orchPc, summaries>>
    /\ UNCHANGED <<canonVars, storeVars, clusterVars, enrichVars, promptVars, metricVars, tableVars, walkVars, appVars, uploadVars, topicVars>>

\* The request of worker w is answered with a conforming response.
RequestSucceeds(w) ==
    /\ orchPc = "running"
    /\ worker[w] # 0
    /\ results' = [results EXCEPT ![worker[w]] = Completion(worker[w])]
    /\ outcome' = [outcome EXCEPT ![worker[w]] = "ok"]
    /\ worker' = [worker EXCEPT ![w] = 0]
    /\ UNCHANGED <<nItems, limit, nextItem, attempts, orchPc, summaries>>
    /\ UNCHANGED <<canonVars, storeVars, clusterVars, enrichVars, promptVars, metricVars, tableVars, walkVars, appVars, uploadVars, topicVars>>

\* A retry whose count of attempts starts over when it reaches the bound.
RequestRetried_CountStartsOver(w) ==
    /\ orchPc = "running"
    /\ worker[w] # 0
    /\ attempts' = [attempts EXCEPT ![worker[w]] = IF @ < MaxAttempts THEN @ + 1 ELSE 1]
    /\ UNCHANGED <<nItems, limit, nextItem, worker, results, outcome, orchPc, summaries>>
    /\ UNCHANGED <<canonVars, storeVars, clusterVars, enrichVars, promptVars, metricVars, tableVars, walkVars, appVars, uploadVars, topicVars>>

\* The request of worker w fails (timeout, rate limit, non-conforming
\* output) and attempts are left: the worker sends it again.
RequestRetried(w) ==
    /\ orchPc = "running"
    /\ worker[w] # 0
    /\ attempts[worker[w]] < MaxAttempts
    /\ attempts' = [attempts EXCEPT ![worker[w]] = @ + 1]
    /\ UNCHANGED <<nItems, limit, nextItem, worker, results, outcome, orchPc, summaries>>
    /\ UNCHANGED <<canonVars, storeVars, clusterVars, enrichVars, promptVars, metricVars, tableVars, walkVars, appVars, uploadVars, topicVars>>

\* The last attempt of worker w's request fails: the pair is recorded as
\* failed and the worker goes on with the queue.
RequestExhausted(w) ==
    /\ orchPc = "running"
    /\ worker[w] # 0
    /\ attempts[worker[w]] = MaxAttempts
    /\ results' = [results EXCEPT ![worker[w]] = FailureMarker]
    /\ outcome' = [outcome EXCEPT ![worker[w]] = "failed"]
    /\ worker' = [worker EXCEPT ![w] = 0]
    /\ UNCHANGED <<nItems, limit, nextItem, attempts, orchPc, summaries>>
    /\ UNCHANGED <<canonVars, storeVars, clusterVars, enrichVars, promptVars, metricVars, tableVars, walkVars, appVars, uploadVars, topicVars>>

\* The queue is empty and every worker idle: the call returns the list.
BatchReturns ==
    /\ orchPc = "running"
    /\ nextItem > nItems
    /\ InFlight = {}
    /\ orchPc' = "returned"
    /\ UNCHANGED <<nItems, limit, nextItem, worker, attempts, results, outcome, summaries>>
    /\ UNCHANGED <<canonVars, storeVars, clusterVars, enrichVars, promptVars, metricVars, tableVars, walkVars, appVars, uploadVars, topicVars>>

\* A list that leaves out the completions that cannot be parsed.
conversation_summaries_skip_failed(completions) ==
    LET ok == SelectSeq(completions, LAMBDA c : c # None)
    IN [i \in 1..Len(ok) |-> Some(ok[i][1].parsed)]

\* A list that ends at the first completion that cannot be parsed.
RECURSIVE conversation_summaries_stop_at_failure(_)
conversation_summaries_stop_at_failure(completions) ==
    IF completions = <<>> \/ Head(completions) = None THEN <<>>
    ELSE <<Some(Head(completions)[1].parsed)>>
             \o conversation_summaries_stop_at_failure(Tail(completions))

\* One iteration of the caller's loop: completion.choices[0].message.parsed,
\* or None when that raises.
parsed_or_None(completion) ==
    IF completion = None THEN None ELSE Some(completion[1].parsed)

\* conversation_summaries: one entry appended per completion, in list order.
conversation_summaries(completions) ==
    [i \in 1..Len(completions) |-> parsed_or_None(completions[i])]

\* The caller builds conversation_summaries from the returned completions.
MapCompletions ==
    /\ orchPc = "returned"
    /\ summaries' = conversation_summaries(results)
    /\ orchPc' = "mapped"
    /\ UNCHANGED <<nItems, limit, nextItem, worker, attempts, results, outcome>>
    /\ UNCHANGED <<canonVars, storeVars, clusterVars, enrichVars, promptVars, metricVars, tableVars, walkVars, appVars, uploadVars, topicVars>>

\* The fields of the object parsed from the response to prompt x: the
\* summary and the tag list of a ConversationSummary, the title and the
\* description of a ConversationClusterSummary.
summary_of(x) == [summary_of_response |-> x]
tags_of(x) == <<[tag_of_response |-> x]>>
title_of(x) == [title_of_response |-> x]
description_of(x) == [description_of_response |-> x]

\* Columns made from the parsed results only, the None entries left out.
summary_and_tags_dropna(parsed) ==
    LET ok == SelectSeq(parsed, LAMBDA x : x # None)
    IN [i \in 1..Len(ok) |-> [summary |-> Some(summary_of(ok[i][1])),
                              tags |-> Some(tags_of(ok[i][1]))]]

\* summarized_conversations_df["summary"] and ["tags"]:
\* .apply(lambda x: x.summary if x else None), .apply(lambda x: x.tags if x else None)
summary_and_tags(parsed) ==
    [i \in 1..Len(parsed) |->
        [summary |-> IF parsed[i] # None THEN Some(summary_of(parsed[i][1])) ELSE None,
         tags |-> IF parsed[i] # None THEN Some(tags_of(parsed[i][1])) ELSE None]]

\* summarized_clusters_df["cluster_title"] and ["cluster_description"]:
\* .apply(lambda x: x.title if x else None), .apply(lambda x: x.description if x else None)
title_and_description(parsed) ==
    [i \in 1..Len(parsed) |->
        [cluster_title |-> IF parsed[i] # None THEN Some(title_of(parsed[i][1])) ELSE None,
         cluster_description |->
             IF parsed[i] # None THEN Some(description_of(parsed[i][1])) ELSE None]]

\* Notebook 02: the batch was of conversations; the summary and tags
\* columns are added from conversation_summaries.
AddSummaryAndTags ==
    /\ orchPc = "mapped"
    /\ enriched' = summary_and_tags(summaries)
    /\ orchPc' = "summarized"
    /\ UNCHANGED <<nItems, limit, nextItem, worker, attempts, results, outcome, summaries>>
    /\ UNCHANGED text_list
    /\ UNCHANGED <<canonVars, storeVars, clusterVars, promptVars, metricVars, tableVars, walkVars, appVars, uploadVars, topicVars>>

\* Notebook 03: the batch was of clusters; the cluster_title and
\* cluster_description columns are added from cluster_summaries.
AddTitleAndDescription ==
    /\ orchPc = "mapped"
    /\ enriched' = title_and_description(summaries)
    /\ orchPc' = "titled"
    /\ UNCHANGED <<nItems, limit, nextItem, worker, attempts, results, outcome, summaries>>
    /\ UNCHANGED text_list
    /\ UNCHANGED <<canonVars, storeVars, clusterVars, promptVars, metricVars, tableVars, walkVars, appVars, uploadVars, topicVars>>

\* The text embedded for row i:
\* f"{row.title}\nTags: {', '.join(row.tags)}\nSummary: {row.summary}".
\* str.join raises TypeError when row.tags is None.
join_raises(row) == row.tags = None

embedding_text(i, row) == [title |-> i, tags |-> row.tags[1], summary |-> row.summary]

\* generate_embeddings_for_texts(text_list=[... for row in ...itertuples()]):
\* the texts are built first; an exception in one of them ends the cell.
EmbedConversations ==
    /\ orchPc = "summarized"
    /\ IF \E i \in 1..Len(enriched) : join_raises(enriched[i])
       THEN /\ orchPc' = "embed_raised"
            /\ UNCHANGED text_list
       ELSE /\ text_list' = [i \in 1..Len(enriched) |-> embedding_text(i, enriched[i])]
            /\ orchPc' = "embedded"
    /\ UNCHANGED <<nItems, limit, nextItem, worker, attempts, results, outcome, summaries>>
    /\ UNCHANGED enriched
    /\ UNCHANGED <<canonVars, storeVars, clusterVars, promptVars, metricVars, tableVars, walkVars, appVars, uploadVars, topicVars>>

NextOrch ==
    \/ \E w \in Workers : TakeItem(w)
    \/ \E w \in Workers : RequestSucceeds(w)
    \/ \E w \in Workers : RequestRetried(w)
    \/ \E w \in Workers : RequestExhausted(w)
    \/ BatchReturns
    \/ MapCompletions
    \/ AddSummaryAndTags
    \/ AddTitleAndDescription
    \/ EmbedConversations

\* ------------------------------------------ notebook 04: the clusters table
\* n_clusters = min(math.ceil(math.sqrt(N)), 24)
CeilSqrt(n) == CHOOSE k \in 0..n : k * k >= n /\ \A j \in 0..(k - 1) : j * j < n

MaxClusterCap == 24

\* The policy without its ceiling.
default_n_clusters_uncapped(n) == CeilSqrt(n)

default_n_clusters(n) == IF CeilSqrt(n) < MaxClusterCap THEN CeilSqrt(n) ELSE MaxClusterCap

\* One row of clusters_data_to_insert: cluster_solution_id is
\* f"kmeans_{n_clusters}", written here as the number n_clusters, and
\* cluster_id is the row's cluster, one of range(n_clusters).
ClusterRow(k, c) == [cluster_solution_id |-> k, cluster_id |-> c]

clusters_data_to_insert(k) == [i \in 1..k |-> ClusterRow(k, i - 1)]

NoTable == [exists |-> FALSE, rows |-> {}]

InitStore ==
    /\ nConvs \in 1..MaxConvs
    /\ runPc = "idle"
    /\ runsStarted = 0
    /\ n_clusters = 0
    /\ clusters = NoTable
    /\ txn = <<>>
    /\ completed = <<>>
    /\ stageLog = <<>>
    /\ mapping = <<>> /\ pc = "idle" /\ extracted = NotRun /\ stored = <<>>
    /\ nItems = 0 /\ limit = 1 /\ nextItem = 1 /\ worker = <<0>> /\ attempts = <<>>
    /\ results = <<>> /\ outcome = <<>> /\ orchPc = "idle" /\ summaries = <<>>
    /\ clusterPc = "off" /\ cluster_labels = <<>> /\ conversation_cluster_df = <<>>
    /\ enriched = <<>> /\ text_list = <<>>
    /\ conversation_markdown = <<>> /\ max_chars = 1 /\ prompt_text = <<>> /\ promptPc = "off"
    /\ distances_to_centroid = <<>> /\ conversation_tags = <<>> /\ n_centroid_docs = 1 /\ max_n_tags_per_cluster = 1
    /\ conversation_ids = <<>> /\ conversations_table = <<>> /\ nextRow = 1 /\ tablePc = "off"
    /\ current_id = <<>> /\ chain = <<>> /\ walkPc = "off"
    /\ activeTab = "welcome" /\ hasData = FALSE /\ dataChecks = 0 /\ importChecks = 0 /\ backendHasData = FALSE
    /\ isUploading = FALSE /\ uploadProgress = 0 /\ uploadStatus = <<>> /\ pollInterval = "none" /\ ticks = 0 /\ polls = {} /\ finalChecks = 0 /\ processing = <<>> /\ uploadPc = "off"
    /\ clusterSolutions = <<>> /\ activeClusterSolutionId = <<>> /\ scatterplotView = "cluster" /\ clusterDataCache = <<>> /\ requests = <<>> /\ pending = {}

\* The notebook is run (again, on the same export): sqlite3.connect, then
\* DROP TABLE IF EXISTS clusters. The statement is DDL, sqlite3 opens no
\* transaction for it, so the drop is committed at once; what an earlier
\* connection left uncommitted is never committed.
ConnectAndDropTables ==
    /\ runPc \in {"idle", "done", "failed"}
    /\ runsStarted < MaxRuns
    /\ runsStarted' = runsStarted + 1
    /\ clusters' = NoTable
    /\ txn' = <<>>
    /\ n_clusters' = 0
    /\ stageLog' = <<>>
    /\ runPc' = "dropped"
    /\ UNCHANGED <<nConvs, completed>>
    /\ UNCHANGED <<canonVars, orchVars, clusterVars, enrichVars, promptVars, metricVars, tableVars, walkVars, appVars, uploadVars, topicVars>>

\* CREATE TABLE conversations (...), CREATE TABLE clusters (...)
CreateClustersTable ==
    /\ runPc = "dropped"
    /\ clusters' = [exists |-> TRUE, rows |-> {}]
    /\ runPc' = "created"
    /\ UNCHANGED <<nConvs, runsStarted, n_clusters, txn, completed, stageLog>>
    /\ UNCHANGED <<canonVars, orchVars, clusterVars, enrichVars, promptVars, metricVars, tableVars, walkVars, appVars, uploadVars, topicVars>>

\* ------------------------------------------ the conversations table
\* CREATE TABLE conversations (conversation_id TEXT PRIMARY_KEY, ...): the
\* words after the column name are its type name, "TEXT PRIMARY_KEY"; the
\* table has no PRIMARY KEY or UNIQUE constraint, so no row is rejected.
insert_rejected(table, id) == FALSE

\* INSERT INTO conversations (conversation_id, ...) VALUES (...): the new
\* row has no summary yet.
insert_conversations_query(table, id) ==
    IF insert_rejected(table, id) THEN table
    ELSE Append(table, [conversation_id |-> id, summary |-> None])

\* UPDATE conversations SET summary = :summary, ... WHERE conversation_id =
\* :conversation_id: every row with that id gets the summary.
update_conversations_query(table, id, summary) ==
    [j \in 1..Len(table) |->
        IF table[j].conversation_id = id
        THEN [table[j] EXCEPT !.summary = Some(summary)]
        ELSE table[j]]

\* The summary of row i of llm_enriched_conversations_df.
RowSummary(i) == [summary_of_row |-> i]

\* The conversations of an export, of which any two may have the same id.
InitTable ==
    /\ \E n \in 1..MaxRows : conversation_ids \in [1..n -> 1..MaxIds]
    /\ conversations_table = <<>>
    /\ nextRow = 1
    /\ tablePc = "connected"
    /\ mapping = <<>> /\ pc = "idle" /\ extracted = NotRun /\ stored = <<>>
    /\ nItems = 0 /\ limit = 1 /\ nextItem = 1 /\ worker = <<0>> /\ attempts = <<>>
    /\ results = <<>> /\ outcome = <<>> /\ orchPc = "idle" /\ summaries = <<>>
    /\ nConvs = 1 /\ runPc = "off" /\ runsStarted = 0 /\ n_clusters = 0
    /\ clusters = [exists |-> FALSE, rows |-> {}] /\ txn = <<>> /\ completed = <<>> /\ stageLog = <<>>
    /\ clusterPc = "off" /\ cluster_labels = <<>> /\ conversation_cluster_df = <<>>
    /\ enriched = <<>> /\ text_list = <<>>
    /\ conversation_markdown = <<>> /\ max_chars = 1 /\ prompt_text = <<>> /\ promptPc = "off"
    /\ distances_to_centroid = <<>> /\ conversation_tags = <<>> /\ n_centroid_docs = 1 /\ max_n_tags_per_cluster = 1
    /\ current_id = <<>> /\ chain = <<>> /\ walkPc = "off"
    /\ activeTab = "welcome" /\ hasData = FALSE /\ dataChecks = 0 /\ importChecks = 0 /\ backendHasData = FALSE
    /\ isUploading = FALSE /\ uploadProgress = 0 /\ uploadStatus = <<>> /\ pollInterval = "none" /\ ticks = 0 /\ polls = {} /\ finalChecks = 0 /\ processing = <<>> /\ uploadPc = "off"
    /\ clusterSolutions = <<>> /\ activeClusterSolutionId = <<>> /\ scatterplotView = "cluster" /\ clusterDataCache = <<>> /\ requests = <<>> /\ pending = {}

\* db_cursor.execute(create_conversations_table_query), after the DROP.
CreateConversationsTable ==
    /\ tablePc = "connected"
    /\ conversations_table' = <<>>
    /\ nextRow' = 1
    /\ tablePc' = "created"
    /\ UNCHANGED conversation_ids
    /\ UNCHANGED <<canonVars, orchVars, storeVars, clusterVars, enrichVars, promptVars, metricVars, walkVars, appVars, uploadVars, topicVars>>

\* One execution of insert_conversations_query by executemany, for the next
\* element of conversations_data_to_insert.
ExecuteInsert ==
    /\ tablePc = "created"
    /\ nextRow <= Len(conversation_ids)
    /\ conversations_table' =
           insert_conversations_query(conversations_table, conversation_ids[nextRow])
    /\ nextRow' = nextRow + 1
    /\ UNCHANGED <<conversation_ids, tablePc>>
    /\ UNCHANGED <<canonVars, orchVars, storeVars, clusterVars, enrichVars, promptVars, metricVars, walkVars, appVars, uploadVars, topicVars>>

\* db_conn.commit() after the inserts.
CommitInserts ==
    /\ tablePc = "created"
    /\ nextRow > Len(conversation_ids)
    /\ nextRow' = 1
    /\ tablePc' = "inserted"
    /\ UNCHANGED <<conversation_ids, conversations_table>>
    /\ UNCHANGED <<canonVars, orchVars, storeVars, clusterVars, enrichVars, promptVars, metricVars, walkVars, appVars, uploadVars, topicVars>>

\* One execution of the UPDATE by executemany, for the next row of
\* llm_enriched_conversations_df.
ExecuteUpdate ==
    /\ tablePc = "inserted"
    /\ nextRow <= Len(conversation_ids)
    /\ conversations_table' =
           update_conversations_query(conversations_table, conversation_ids[nextRow],
                                      RowSummary(nextRow))
    /\ nextRow' = nextRow + 1
    /\ UNCHANGED <<conversation_ids, tablePc>>
    /\ UNCHANGED <<canonVars, orchVars, storeVars, clusterVars, enrichVars, promptVars, metricVars, walkVars, appVars, uploadVars, topicVars>>

\* db_conn.commit() after the updates.
CommitUpdates ==
    /\ tablePc = "inserted"
    /\ nextRow > Len(conversation_ids)
    /\ tablePc' = "updated"
    /\ UNCHANGED <<conversation_ids, conversations_table, nextRow>>
    /\ UNCHANGED <<canonVars, orchVars, storeVars, clusterVars, enrichVars, promptVars, metricVars, walkVars, appVars, uploadVars, topicVars>>

NextTable ==
    \/ CreateConversationsTable
    \/ ExecuteInsert
    \/ CommitInserts
    \/ ExecuteUpdate
    \/ CommitUpdates

\* What a cell of the notebook that works on the conversations does to the
\* run: it starts `stage` and leaves the run at `to`. None of these cells
\* touches the clusters table.
ConversationsCell(stage, to) ==
    /\ stageLog' = Append(stageLog, stage)
    /\ runPc' = to
    /\ UNCHANGED <<nConvs, runsStarted, n_clusters, clusters, txn, completed>>
    /\ UNCHANGED <<canonVars, orchVars, clusterVars, enrichVars, promptVars, metricVars, tableVars, walkVars, appVars, uploadVars, topicVars>>

\* extract_longest_conversation_df for every conversation of the export.
CanonicalizeConversations ==
    /\ runPc = "created"
    /\ ConversationsCell("canonicalize", "canonicalized")

\* INSERT INTO conversations ..., db_conn.commit()
InsertConversations ==
    /\ runPc = "canonicalized"
    /\ ConversationsCell("persist", "inserted")

\* llm_utils.enrich_conversations_with_summaries_and_tags
EnrichConversations ==
    /\ runPc = "inserted"
    /\ ConversationsCell("enrich", "enriched")

\* UPDATE conversations SET summary, tags ..., db_conn.commit()
UpdateSummaryAndTags ==
    /\ runPc = "enriched"
    /\ ConversationsCell("persist", "summaries_stored")

\* openai_utils.generate_embeddings_for_texts
EmbedTexts ==
    /\ runPc = "summaries_stored"
    /\ ConversationsCell("embed", "embedded")

\* umap_model.fit_transform on the conversation embeddings
ProjectConversations ==
    /\ runPc = "embedded"
    /\ ConversationsCell("project", "projected")

\* UPDATE conversations SET embedding, umap_x, umap_y ..., db_conn.commit()
UpdateEmbeddings ==
    /\ runPc = "projected"
    /\ ConversationsCell("persist", "conversations")

\* Clustering right after the embedding, before any projection.
ClusterConversations_AfterEmbed ==
    /\ runPc = "embedded"
    /\ n_clusters' = default_n_clusters(nConvs)
    /\ stageLog' = Append(stageLog, "cluster")
    /\ runPc' = "clustered"
    /\ UNCHANGED <<nConvs, runsStarted, clusters, txn, completed>>
    /\ UNCHANGED <<canonVars, orchVars, clusterVars, enrichVars, promptVars, metricVars, tableVars, walkVars, appVars, uploadVars, topicVars>>

\* n_clusters is computed and the conversations are clustered
\* (cluster_conversations, calculate_cluster_metrics).
ClusterConversations ==
    /\ runPc = "conversations"
    /\ n_clusters' = default_n_clusters(nConvs)
    /\ stageLog' = Append(stageLog, "cluster")
    /\ runPc' = "clustered"
    /\ UNCHANGED <<nConvs, runsStarted, clusters, txn, completed>>
    /\ UNCHANGED <<canonVars, orchVars, clusterVars, enrichVars, promptVars, metricVars, tableVars, walkVars, appVars, uploadVars, topicVars>>

\* umap_model.fit_transform on the cluster centroids
ProjectCentroids ==
    /\ runPc = "clustered"
    /\ ConversationsCell("project", "centroids_projected")

\* llm_utils.label_conversation_clusters
LabelClusters ==
    /\ runPc = "centroids_projected"
    /\ ConversationsCell("label", "labeled")

\* A row insert that is committed on its own.
InsertClusterRowAutocommit ==
    /\ runPc = "labeled"
    /\ Len(txn) < n_clusters
    /\ txn' = Append(txn, clusters_data_to_insert(n_clusters)[Len(txn) + 1])
    /\ clusters' = [clusters EXCEPT !.rows = @ \cup {clusters_data_to_insert(n_clusters)[Len(txn) + 1]}]
    /\ stageLog' = IF txn = <<>> THEN Append(stageLog, "persist") ELSE stageLog
    /\ UNCHANGED <<nConvs, runPc, runsStarted, n_clusters, completed>>
    /\ UNCHANGED <<canonVars, orchVars, clusterVars, enrichVars, promptVars, metricVars, tableVars, walkVars, appVars, uploadVars, topicVars>>

\* db_cursor.executemany(insert_clusters_query, clusters_data_to_insert)
\* inserts the next row: the first INSERT opens the transaction, every row
\* stays in it.
InsertClusterRow ==
    /\ runPc = "labeled"
    /\ Len(txn) < n_clusters
    /\ txn' = Append(txn, clusters_data_to_insert(n_clusters)[Len(txn) + 1])
    /\ stageLog' = IF txn = <<>> THEN Append(stageLog, "persist") ELSE stageLog
    /\ UNCHANGED <<nConvs, runPc, runsStarted, n_clusters, clusters, completed>>
    /\ UNCHANGED <<canonVars, orchVars, clusterVars, enrichVars, promptVars, metricVars, tableVars, walkVars, appVars, uploadVars, topicVars>>

\* executemany is over: db_conn.commit() makes the rows of the transaction
\* visible together.
CommitClusters ==
    /\ runPc = "labeled"
    /\ Len(txn) = n_clusters
    /\ clusters' = [clusters EXCEPT !.rows = @ \cup {txn[i] : i \in 1..Len(txn)}]
    /\ completed' = Append(completed, [cluster_solution_id |-> n_clusters,
                                        rows |-> {txn[i] : i \in 1..Len(txn)}])
    /\ txn' = <<>>
    /\ runPc' = "done"
    /\ UNCHANGED <<nConvs, runsStarted, n_clusters, stageLog>>
    /\ UNCHANGED <<canonVars, orchVars, clusterVars, enrichVars, promptVars, metricVars, tableVars, walkVars, appVars, uploadVars, topicVars>>

\* The cells a run can stand at.
RunningCells ==
    {"dropped", "created", "canonicalized", "inserted", "enriched", "summaries_stored",
     "embedded", "projected", "conversations", "clustered", "centroids_projected",
     "labeled"}

\* A cell raises (a storage write fails) or the run is interrupted: the
\* following cells do not run and nothing more is committed.
RunFails ==
    /\ runPc \in RunningCells
    /\ runPc' = "failed"
    /\ UNCHANGED <<nConvs, runsStarted, n_clusters, clusters, txn, completed, stageLog>>
    /\ UNCHANGED <<canonVars, orchVars, clusterVars, enrichVars, promptVars, metricVars, tableVars, walkVars, appVars, uploadVars, topicVars>>

\* The first run of the notebook on an export of up to MaxExport
\* conversations, at the cell that computes n_clusters.
InitDefaultK ==
    /\ nConvs \in 1..MaxExport
    /\ runPc = "conversations"
    /\ runsStarted = 1
    /\ n_clusters = 0
    /\ clusters = [exists |-> TRUE, rows |-> {}]
    /\ txn = <<>>
    /\ completed = <<>>
    /\ stageLog = <<"canonicalize", "persist", "enrich", "persist", "embed", "project", "persist">>
    /\ mapping = <<>> /\ pc = "idle" /\ extracted = NotRun /\ stored = <<>>
    /\ nItems = 0 /\ limit = 1 /\ nextItem = 1 /\ worker = <<0>> /\ attempts = <<>>
    /\ results = <<>> /\ outcome = <<>> /\ orchPc = "idle" /\ summaries = <<>>
    /\ clusterPc = "off" /\ cluster_labels = <<>> /\ conversation_cluster_df = <<>>
    /\ enriched = <<>> /\ text_list = <<>>
    /\ conversation_markdown = <<>> /\ max_chars = 1 /\ prompt_text = <<>> /\ promptPc = "off"
    /\ distances_to_centroid = <<>> /\ conversation_tags = <<>> /\ n_centroid_docs = 1 /\ max_n_tags_per_cluster = 1
    /\ conversation_ids = <<>> /\ conversations_table = <<>> /\ nextRow = 1 /\ tablePc = "off"
    /\ current_id = <<>> /\ chain = <<>> /\ walkPc = "off"
    /\ activeTab = "welcome" /\ hasData = FALSE /\ dataChecks = 0 /\ importChecks = 0 /\ backendHasData = FALSE
    /\ isUploading = FALSE /\ uploadProgress = 0 /\ uploadStatus = <<>> /\ pollInterval = "none" /\ ticks = 0 /\ polls = {} /\ finalChecks = 0 /\ processing = <<>> /\ uploadPc = "off"
    /\ clusterSolutions = <<>> /\ activeClusterSolutionId = <<>> /\ scatterplotView = "cluster" /\ clusterDataCache = <<>> /\ requests = <<>> /\ pending = {}

NextStore ==
    \/ ConnectAndDropTables
    \/ CreateClustersTable
    \/ CanonicalizeConversations
    \/ InsertConversations
    \/ EnrichConversations
    \/ UpdateSummaryAndTags
    \/ EmbedTexts
    \/ ProjectConversations
    \/ UpdateEmbeddings
    \/ ClusterConversations
    \/ ProjectCentroids
    \/ LabelClusters
    \/ InsertClusterRow
    \/ CommitClusters
    \/ RunFails

\* ------------------------------------------- notebook 03: the cluster engine
\* conversation_id of row i of conversation_embs_df; the conversations of an
\* export have ids of their own.
ConversationId(i) == i

\* MiniBatchKMeans(n_clusters=k).fit_predict on n samples: scikit-learn
\* raises ValueError when n < k, and otherwise gives every sample the index
\* of its nearest centre, one of range(k). A centre may be nearest to none.
fit_predict_raises(n, k) == n < k

fit_predict_labelings(n, k) == [1..n -> 0..(k - 1)]

\* The tag lists a conversation may have: null after a failed enrichment,
\* or a list of tags.
Tags == {"python", "sql", "css"}

TagLists ==
    {None, Some(<<>>), Some(<<"python">>), Some(<<"sql">>),
     Some(<<"python", "sql">>), Some(<<"sql", "css">>)}

InitCluster ==
    /\ nConvs \in 1..MaxConvs
    /\ n_clusters \in 1..MaxK
    /\ clusterPc = "loaded"
    /\ cluster_labels = <<>>
    /\ conversation_cluster_df = <<>>
    /\ runPc = "off" /\ runsStarted = 0
    /\ clusters = [exists |-> FALSE, rows |-> {}] /\ txn = <<>> /\ completed = <<>> /\ stageLog = <<>>
    /\ mapping = <<>> /\ pc = "idle" /\ extracted = NotRun /\ stored = <<>>
    /\ nItems = 0 /\ limit = 1 /\ nextItem = 1 /\ worker = <<0>> /\ attempts = <<>>
    /\ results = <<>> /\ outcome = <<>> /\ orchPc = "idle" /\ summaries = <<>>
    /\ enriched = <<>> /\ text_list = <<>>
    /\ conversation_markdown = <<>> /\ max_chars = 1 /\ prompt_text = <<>> /\ promptPc = "off"
    /\ distances_to_centroid = [i \in 1..nConvs |-> 0]
    /\ conversation_tags = [i \in 1..nConvs |-> Some(<<>>)]
    /\ n_centroid_docs = 1 /\ max_n_tags_per_cluster = 1
    /\ conversation_ids = <<>> /\ conversations_table = <<>> /\ nextRow = 1 /\ tablePc = "off"
    /\ current_id = <<>> /\ chain = <<>> /\ walkPc = "off"
    /\ activeTab = "welcome" /\ hasData = FALSE /\ dataChecks = 0 /\ importChecks = 0 /\ backendHasData = FALSE
    /\ isUploading = FALSE /\ uploadProgress = 0 /\ uploadStatus = <<>> /\ pollInterval = "none" /\ ticks = 0 /\ polls = {} /\ finalChecks = 0 /\ processing = <<>> /\ uploadPc = "off"
    /\ clusterSolutions = <<>> /\ activeClusterSolutionId = <<>> /\ scatterplotView = "cluster" /\ clusterDataCache = <<>> /\ requests = <<>> /\ pending = {}

\* The clustering of a small export whose embeddings lie at any distances
\* from the centroids, for every n_centroid_docs.
InitCentroids ==
    /\ nConvs \in 1..MaxPoints
    /\ n_clusters \in 1..MaxK
    /\ clusterPc = "loaded"
    /\ cluster_labels = <<>>
    /\ conversation_cluster_df = <<>>
    /\ distances_to_centroid \in [1..nConvs -> 0..MaxDist]
    /\ conversation_tags = [i \in 1..nConvs |-> Some(<<>>)]
    /\ n_centroid_docs \in 1..MaxCentroidDocs
    /\ max_n_tags_per_cluster = 1
    /\ runPc = "off" /\ runsStarted = 0
    /\ clusters = [exists |-> FALSE, rows |-> {}] /\ txn = <<>> /\ completed = <<>> /\ stageLog = <<>>
    /\ mapping = <<>> /\ pc = "idle" /\ extracted = NotRun /\ stored = <<>>
    /\ nItems = 0 /\ limit = 1 /\ nextItem = 1 /\ worker = <<0>> /\ attempts = <<>>
    /\ results = <<>> /\ outcome = <<>> /\ orchPc = "idle" /\ summaries = <<>>
    /\ enriched = <<>> /\ text_list = <<>>
    /\ conversation_markdown = <<>> /\ max_chars = 1 /\ prompt_text = <<>> /\ promptPc = "off"
    /\ conversation_ids = <<>> /\ conversations_table = <<>> /\ nextRow = 1 /\ tablePc = "off"
    /\ current_id = <<>> /\ chain = <<>> /\ walkPc = "off"
    /\ activeTab = "welcome" /\ hasData = FALSE /\ dataChecks = 0 /\ importChecks = 0 /\ backendHasData = FALSE
    /\ isUploading = FALSE /\ uploadProgress = 0 /\ uploadStatus = <<>> /\ pollInterval = "none" /\ ticks = 0 /\ polls = {} /\ finalChecks = 0 /\ processing = <<>> /\ uploadPc = "off"
    /\ clusterSolutions = <<>> /\ activeClusterSolutionId = <<>> /\ scatterplotView = "cluster" /\ clusterDataCache = <<>> /\ requests = <<>> /\ pending = {}

\* The clustering of a small export, into one or two clusters, whose
\* conversations have any of the tag lists, for every max_n_tags_per_cluster.
InitTags ==
    /\ nConvs \in 1..MaxPoints
    /\ n_clusters \in {1, 2}
    /\ clusterPc = "loaded"
    /\ cluster_labels = <<>>
    /\ conversation_cluster_df = <<>>
    /\ distances_to_centroid = [i \in 1..nConvs |-> 0]
    /\ conversation_tags \in [1..nConvs -> TagLists]
    /\ n_centroid_docs = 1
    /\ max_n_tags_per_cluster \in 1..MaxTagCap
    /\ runPc = "off" /\ runsStarted = 0
    /\ clusters = [exists |-> FALSE, rows |-> {}] /\ txn = <<>> /\ completed = <<>> /\ stageLog = <<>>
    /\ mapping = <<>> /\ pc = "idle" /\ extracted = NotRun /\ stored = <<>>
    /\ nItems = 0 /\ limit = 1 /\ nextItem = 1 /\ worker = <<0>> /\ attempts = <<>>
    /\ results = <<>> /\ outcome = <<>> /\ orchPc = "idle" /\ summaries = <<>>
    /\ enriched = <<>> /\ text_list = <<>>
    /\ conversation_markdown = <<>> /\ max_chars = 1 /\ prompt_text = <<>> /\ promptPc = "off"
    /\ conversation_ids = <<>> /\ conversations_table = <<>> /\ nextRow = 1 /\ tablePc = "off"
    /\ current_id = <<>> /\ chain = <<>> /\ walkPc = "off"
    /\ activeTab = "welcome" /\ hasData = FALSE /\ dataChecks = 0 /\ importChecks = 0 /\ backendHasData = FALSE
    /\ isUploading = FALSE /\ uploadProgress = 0 /\ uploadStatus = <<>> /\ pollInterval = "none" /\ ticks = 0 /\ polls = {} /\ finalChecks = 0 /\ processing = <<>> /\ uploadPc = "off"
    /\ clusterSolutions = <<>> /\ activeClusterSolutionId = <<>> /\ scatterplotView = "cluster" /\ clusterDataCache = <<>> /\ requests = <<>> /\ pending = {}

\* cluster_labels = minibatch_kmeans.fit_predict(embeddings_array); the
\* labels become the "cluster" column. An exception ends the cell.
FitPredict ==
    /\ clusterPc = "loaded"
    /\ IF fit_predict_raises(nConvs, n_clusters)
       THEN /\ clusterPc' = "raised"
            /\ UNCHANGED cluster_labels
       ELSE /\ cluster_labels' \in fit_predict_labelings(nConvs, n_clusters)
            /\ clusterPc' = "fitted"
    /\ UNCHANGED conversation_cluster_df
    /\ UNCHANGED <<canonVars, orchVars, storeVars, enrichVars, promptVars, metricVars, tableVars, walkVars, appVars, uploadVars, topicVars>>

\* conversation_embs_df[cluster_mask]["conversation_id"].tolist(): the ids
\* of the rows whose cluster is cluster_id, in row order.
RECURSIVE all_conv_ids_from(_, _, _)
all_conv_ids_from(labels, cluster_id, i) ==
    IF i > Len(labels) THEN <<>>
    ELSE (IF labels[i] = cluster_id THEN <<ConversationId(i)>> ELSE <<>>)
             \o all_conv_ids_from(labels, cluster_id, i + 1)

all_conv_ids(labels, cluster_id) == all_conv_ids_from(labels, cluster_id, 1)

\* The rows of conversation_embs_df[cluster_mask], as positions of the
\* whole frame, in row order.
cluster_rows(labels, cluster_id) ==
    SelectSeq([i \in 1..Len(labels) |-> i], LAMBDA i : labels[i] = cluster_id)

\* cluster_distances = distances_to_centroid[cluster_mask, cluster_id]
cluster_distances(labels, cluster_id) ==
    [j \in 1..Len(cluster_rows(labels, cluster_id)) |->
        distances_to_centroid[cluster_rows(labels, cluster_id)[j]]]

\* The place of index j in an order sorted by key: behind every index whose
\* key is smaller or equal (ties keep their input order, as numpy's sort
\* does on arrays this short).
RECURSIVE insert_ascending(_, _, _)
insert_ascending(order, key, j) ==
    IF order = <<>> THEN <<j>>
    ELSE IF key[Head(order)] <= key[j]
         THEN <<Head(order)>> \o insert_ascending(Tail(order), key, j)
         ELSE <<j>> \o order

RECURSIVE argsort_upto(_, _)
argsort_upto(key, n) ==
    IF n = 0 THEN <<>> ELSE insert_ascending(argsort_upto(key, n - 1), key, n)

\* An argsort from the largest key to the smallest.
argsort_descending(key) ==
    LET up == argsort_upto(key, Len(key))
    IN [j \in 1..Len(up) |-> up[Len(up) + 1 - j]]

\* np.argsort(key): the indices of key from the smallest key to the largest.
argsort(key) == argsort_upto(key, Len(key))

\* closest_indices = np.argsort(cluster_distances)[:n_centroid_docs]
closest_indices(labels, cluster_id) ==
    SliceTo(argsort(cluster_distances(labels, cluster_id)), n_centroid_docs)

\* conversation_embs_df[cluster_mask].iloc[closest_indices]["conversation_id"].tolist()
closest_conv_ids(labels, cluster_id) ==
    [j \in 1..Len(closest_indices(labels, cluster_id)) |->
        ConversationId(cluster_rows(labels, cluster_id)[closest_indices(labels, cluster_id)[j]])]

\* summarized_conversations_df[conversation_id.isin(all_conv_ids)]["tags"]
\* .explode(), without the missing values that value_counts leaves out (a
\* null tag list and an empty one each explode to one missing value).
RECURSIVE exploded_tags_from(_, _, _)
exploded_tags_from(labels, cluster_id, i) ==
    IF i > Len(labels) THEN <<>>
    ELSE (IF labels[i] = cluster_id /\ conversation_tags[i] # None
          THEN conversation_tags[i][1] ELSE <<>>)
             \o exploded_tags_from(labels, cluster_id, i + 1)

exploded_tags(labels, cluster_id) == exploded_tags_from(labels, cluster_id, 1)

\* The distinct values of a series, in order of first occurrence.
RECURSIVE unique(_)
unique(series) ==
    IF series = <<>> THEN <<>>
    ELSE LET front == unique(SubSeq(series, 1, Len(series) - 1))
             last == series[Len(series)]
         IN IF \E j \in 1..Len(front) : front[j] = last THEN front ELSE Append(front, last)

\* How often value x occurs in the series.
occurrences(series, x) == Cardinality({j \in 1..Len(series) : series[j] = x})

\* The values with their counts in order of first occurrence, not sorted.
value_counts_unsorted(series) ==
    [j \in 1..Len(unique(series)) |->
        [tag |-> unique(series)[j], count |-> occurrences(series, unique(series)[j])]]

\* Series.value_counts(): a row per distinct value with its count, from the
\* largest count to the smallest; equal counts stay in order of first
\* occurrence.
value_counts(series) ==
    LET u == unique(series)
        negcount == [j \in 1..Len(u) |-> 0 - occurrences(series, u[j])]
        order == argsort_upto(negcount, Len(u))
    IN [j \in 1..Len(u) |-> [tag |-> u[order[j]], count |-> 0 - negcount[order[j]]]]

\* .head(max_n_tags_per_cluster).to_dict(): tag -> count of the first rows.
tag_counts(labels, cluster_id) ==
    LET top == SliceTo(value_counts(exploded_tags(labels, cluster_id)), max_n_tags_per_cluster)
    IN [t \in {top[j].tag : j \in 1..Len(top)} |->
           top[CHOOSE j \in 1..Len(top) : top[j].tag = t].count]

\* The record of one cluster after the loop body ran for it.
ClusterRecord(labels, cluster_id) ==
    [cluster |-> cluster_id,
     all_conversation_ids |-> all_conv_ids(labels, cluster_id),
     n_conversations |-> Len(all_conv_ids(labels, cluster_id)),
     centroid_conversation_ids |-> closest_conv_ids(labels, cluster_id),
     tag_counts |-> tag_counts(labels, cluster_id)]

\* A loop over range(1, n_clusters + 1) instead of range(n_clusters).
calculate_cluster_metrics_from_one(labels, k) ==
    [c \in 1..k |-> ClusterRecord(labels, c)]

\* conversation_cluster_df: a row per cluster of range(n_clusters), filled
\* by the loop over the clusters.
calculate_cluster_metrics(labels, k) ==
    [c \in 1..k |-> ClusterRecord(labels, c - 1)]

CalculateClusterMetrics ==
    /\ clusterPc = "fitted"
    /\ conversation_cluster_df' = calculate_cluster_metrics(cluster_labels, n_clusters)
    /\ clusterPc' = "metrics"
    /\ UNCHANGED cluster_labels
    /\ UNCHANGED <<canonVars, orchVars, storeVars, enrichVars, promptVars, metricVars, tableVars, walkVars, appVars, uploadVars, topicVars>>

NextCluster == FitPredict \/ CalculateClusterMetrics

\* ------------------------------------------------------- specifications
\* Each specification runs one part of the pipeline; the variables of the
\* other parts keep their initial values.
SpecCanon == InitCanon /\ [][NextCanon]_vars

SpecOrch == InitOrch /\ [][NextOrch]_vars

\* The orchestrator under fair scheduling: the event loop does not stop
\* while a worker, or the caller, has a step to take.
FairSpecOrch == InitOrch /\ [][NextOrch]_vars /\ WF_vars(NextOrch)

SpecStore == InitStore /\ [][NextStore]_vars

SpecCluster == InitCluster /\ [][NextCluster]_vars

\* The metrics cell on embeddings at any distances from the centroids.
SpecCentroids == InitCentroids /\ [][NextCluster]_vars

\* The metrics cell on conversations with any tag lists.
SpecTags == InitTags /\ [][NextCluster]_vars

\* One call of get_chain_from_node; the interpreter keeps running it.
FairSpecWalk == InitWalk /\ [][NextWalk]_vars /\ WF_vars(NextWalk)

\* The tabs of the front end and its data-existence checks.
SpecApp == InitApp /\ [][NextApp]_vars

\* One upload on the import tab; the browser keeps running what can run.
FairSpecUpload == InitUpload /\ [][NextUpload]_vars /\ WF_vars(NextUpload)

\* The topic map tab: the solution, the view and the cluster data cache.
SpecTopicMap == InitTopicMap /\ [][NextTopicMap]_vars

\* The writes of notebook 04 to the conversations table.
SpecTable == InitTable /\ [][NextTable]_vars

\* The prompt of one conversation, for every short markdown and budget.
SpecPrompt == InitPrompt /\ [][BuildPrompt]_vars

\* The computation of the default cluster count alone, on large exports.
SpecDefaultK == InitDefaultK /\ [][ClusterConversations]_vars

\* ------------------------------------------------- claims: canonicalization
\* The number of non-null messages on the first-child path from node k,
\* counted along at most `fuel` nodes.
RECURSIVE FirstChildPathCount(_, _, _)
FirstChildPathCount(m, k, fuel) ==
    IF fuel = 0 THEN 0
    ELSE (IF m[k].message = None THEN 0 ELSE 1)
         + (IF Len(m[k].children) = 0 THEN 0
            ELSE FirstChildPathCount(m, Head(m[k].children), fuel - 1))

RootIds(m) == {k \in DOMAIN m : "parent" \in DOMAIN m[k] /\ m[k].parent = None}

\* The nodes that lack one of the expected keys.
MalformedNodes(m) == {k \in DOMAIN m : ~(NodeKeys \subseteq DOMAIN m[k])}

\* Of the input mappings, the forests are those with a root, and the empty one.
IsForest(m) == RootIds(m) # {} \/ m = <<>>

Returned == pc \in {"extracted", "stored"}

\* C1: for a forest mapping, the chain extract_longest_conversation returns
\* has at least as many messages as the first-child chain of every root.
C1_ReturnedChainIsLongest ==
    (Returned /\ IsForest(mapping)) =>
        \A r \in RootIds(mapping) :
            Len(extracted.rows) >= FirstChildPathCount(mapping, r, Len(mapping))

\* C1 witness: a returned chain of a forest whose first root has a strictly
\* shorter chain than a later root.
C1_Witness ==
    /\ Returned
    /\ \E r1, r2 \in RootIds(mapping) :
           /\ r1 < r2
           /\ \A r \in RootIds(mapping) : r1 <= r
           /\ FirstChildPathCount(mapping, r1, Len(mapping)) >= 1
           /\ FirstChildPathCount(mapping, r1, Len(mapping))
                  < FirstChildPathCount(mapping, r2, Len(mapping))
           /\ Len(extracted.rows) = FirstChildPathCount(mapping, r2, Len(mapping))

\* The messages of branch b of a two-branch mapping that user or assistant wrote.
BranchMessageIds(b) == BranchNodes(b)

LongBranch == IF BranchLengths[1] > BranchLengths[2] THEN 1 ELSE 2

\* C2: for the tree with two branches of 3 and 5 messages, the stored
\* canonical transcript is exactly the 5-message branch's user/assistant
\* messages, whichever branch the branching node lists first.
C2_TranscriptIsLongBranch ==
    (mapping \in BranchMappings /\ pc = "stored" /\ stored[1].entry = "notebook02") =>
        {stored[1].raw[i].id : i \in 1..Len(stored[1].raw)} = BranchMessageIds(LongBranch)

\* C3: for a mapping of well-formed nodes with zero roots (the empty mapping
\* included), the canonicalization completes without raising and yields an
\* empty transcript.
C3_NoRootsGivesEmptyTranscript ==
    (MalformedNodes(mapping) = {} /\ RootIds(mapping) = {} /\ pc # "start") =>
        (pc # "raised" /\ ~extracted.raised /\ extracted.rows = <<>>)

\* create_time or 0
TimeOrZero(x) == IF x.create_time = None THEN 0 ELSE x.create_time[1]

\* C4: the returned messages are in ascending order of (create_time or 0)
\* and are a permutation of the winning chain's messages.
C4_ReturnedSortedPermutation ==
    Returned =>
        /\ \A i \in 1..(Len(extracted.rows) - 1) :
               TimeOrZero(extracted.rows[i]) <= TimeOrZero(extracted.rows[i + 1])
        /\ Len(extracted.rows) = Len(longest_chain(mapping))
        /\ \A i \in 1..Len(extracted.rows) :
               \E j \in 1..Len(extracted.rows) : extracted.rows[i] = longest_chain(mapping)[j]
        /\ \A i, j \in 1..Len(extracted.rows) :
               extracted.rows[i] = extracted.rows[j] => i = j

\* C4 witness: a returned chain that was out of order in the tree and holds
\* a message with a null create_time after a message with a later one.
C4_Witness ==
    /\ Returned
    /\ extracted.rows # longest_chain(mapping)
    /\ \E i, j \in 1..Len(longest_chain(mapping)) :
           /\ i < j
           /\ longest_chain(mapping)[j].create_time = None
           /\ longest_chain(mapping)[i].create_time # None
           /\ TimeOrZero(longest_chain(mapping)[i]) > 0

\* C5: whatever entry point stored the conversation, its raw message data
\* and the frame its markdown is rendered from hold only messages whose
\* author role is user or assistant.
C5_StoredOnlyUserAssistant ==
    pc = "stored" =>
        /\ \A i \in 1..Len(stored[1].raw) : stored[1].raw[i].role \in {"user", "assistant"}
        /\ \A i \in 1..Len(stored[1].markdown_of) :
               stored[1].markdown_of[i].role \in {"user", "assistant"}
\* C17: when a node of the mapping lacks an expected key, canonicalization
\* ends with a parse error that names a node that lacks a key.
C17_MalformedNodeIsNamed ==
    (MalformedNodes(mapping) # {} /\ pc # "start") =>
        /\ pc = "raised"
        /\ extracted.error # None
        /\ extracted.error[1].node_ids \cap MalformedNodes(mapping) # {}

\* The i-th node on the way from root r that always takes the first child
\* id, 0 once that way has ended at a node without children.
RECURSIVE PathNode(_, _, _)
PathNode(m, r, i) ==
    IF i = 1 THEN r
    ELSE LET prev == PathNode(m, r, i - 1)
         IN IF prev = 0 THEN 0
            ELSE IF Len(m[prev].children) = 0 THEN 0
            ELSE m[prev].children[1]

\* The nodes on that way that carry a message, in the order of the way.
NodesWithMessage(m, r) ==
    SelectSeq([i \in 1..Len(m) |-> PathNode(m, r, i)],
              LAMBDA k : k # 0 /\ m[k].message # None)

\* C19: the chain built from a root holds exactly the messages of the nodes
\* reached by taking child_ids[0] again and again until a node without
\* children, those with a null message left out, in that order; a null
\* message of the root does not end the walk. The returned rows are the
\* messages of one such chain.
C19_ChainIsFirstChildWalk ==
    Returned =>
        /\ \A r \in RootIds(mapping) :
               /\ Len(get_chain_from_node(mapping, r)) = Len(NodesWithMessage(mapping, r))
               /\ \A i \in 1..Len(NodesWithMessage(mapping, r)) :
                      get_chain_from_node(mapping, r)[i]
                          = mapping[NodesWithMessage(mapping, r)[i]].message[1]
        /\ \E r \in RootIds(mapping) :
               /\ Len(extracted.rows) = Len(NodesWithMessage(mapping, r))
               /\ {extracted.rows[i].id : i \in 1..Len(extracted.rows)}
                      = {NodesWithMessage(mapping, r)[i] : i \in 1..Len(NodesWithMessage(mapping, r))}

\* C19 witness: the rows returned for a mapping whose only root has a null
\* message and whose walk went on to collect at least two messages below it.
C19_Witness ==
    /\ Returned
    /\ \E r \in RootIds(mapping) :
           /\ RootIds(mapping) = {r}
           /\ mapping[r].message = None
           /\ Len(extracted.rows) >= 2
           /\ \A i \in 1..Len(extracted.rows) : extracted.rows[i].id # r

\* --------------------------------------------------- claims: orchestrator
\* C6: whatever the order in which the requests complete, the batch returns
\* exactly N entries and entry i is the result, or the failure marker, of
\* input pair i; so is entry i of the list the caller builds from them.
C6_ResultsInInputOrder ==
    /\ orchPc \in {"returned", "mapped"} =>
           /\ Len(results) = nItems
           /\ \A i \in 1..nItems :
                  /\ outcome[i] = "ok" => results[i] = Some([parsed |-> i])
                  /\ outcome[i] = "failed" => results[i] = None
                  /\ outcome[i] # "none"
    /\ orchPc = "mapped" =>
           /\ Len(summaries) = nItems
           /\ \A i \in 1..nItems :
                  /\ outcome[i] = "ok" => summaries[i] = Some(i)
                  /\ outcome[i] = "failed" => summaries[i] = None

\* C6 witness: a mapped batch of at least three pairs where a failed pair
\* comes before a successful one.
C6_Witness ==
    /\ orchPc = "mapped"
    /\ nItems >= 3
    /\ limit >= 2
    /\ \E i, j \in 1..nItems : i < j /\ outcome[i] = "failed" /\ outcome[j] = "ok"

\* C7: at most C requests are in flight at any time, for every batch size.
C7_InFlightAtMostLimit ==
    Cardinality({w \in DOMAIN worker : worker[w] # 0}) <= limit

\* C7 witness: a batch larger than the limit with C requests in flight and
\* a pair still waiting in the queue.
C7_Witness ==
    /\ nItems > limit
    /\ Cardinality({w \in DOMAIN worker : worker[w] # 0}) = limit
    /\ nextItem <= nItems

\* C8: a pair is recorded as failed only when MaxAttempts attempts of it
\* failed, and then its slot holds the failure marker (None in the
\* caller's list); every pair that was answered holds its own result,
\* whatever failed beside it; after a failure the batch goes on.
C8_FailureIsolated ==
    /\ \A i \in 1..nItems :
           /\ outcome[i] = "failed" => (attempts[i] = MaxAttempts /\ results[i] = FailureMarker)
           /\ outcome[i] = "ok" => results[i] = Completion(i)
    /\ orchPc = "mapped" =>
           \A i \in 1..nItems :
               /\ outcome[i] = "failed" => (i <= Len(summaries) /\ summaries[i] = None)
               /\ outcome[i] = "ok" => (i <= Len(summaries) /\ summaries[i] = Some(i))
    /\ (orchPc = "running" /\ \E i \in 1..nItems : outcome[i] = "failed") => ENABLED NextOrch

\* C8 witness: a mapped batch in which one pair failed on every attempt and
\* all others, one of them taken after the failure, succeeded.
C8_Witness ==
    /\ orchPc = "mapped"
    /\ nItems >= 2
    /\ \E i \in 1..nItems :
           /\ outcome[i] = "failed"
           /\ i < nItems
           /\ \A j \in (1..nItems) \ {i} : outcome[j] = "ok" /\ summaries[j] = Some(j)
\* ---------------------------------------------------- claims: the store
\* What a reader of the store sees of solution k: its committed rows.
VisibleRows(k) == {r \in clusters.rows : r.cluster_solution_id = k}

\* C9: while a solution's clusters are written, and after a run failed or
\* was cancelled part-way, a reader sees none or all K clusters of every
\* cluster_solution_id.
C9_SolutionVisibleAllOrNothing ==
    \A k \in 0..MaxClusterCap :
        \/ VisibleRows(k) = {}
        \/ VisibleRows(k) = {ClusterRow(k, c) : c \in 0..(k - 1)}

\* C9 witness: a run that failed with some, not all, rows of a solution of
\* at least two clusters inserted.
C9_Witness ==
    /\ runPc = "failed"
    /\ n_clusters >= 2
    /\ Len(txn) >= 1
    /\ Len(txn) < n_clusters

\* C10: every completed run has a cluster_solution_id of its own, and the
\* clusters of an earlier run's solution stay in the store, unchanged.
C10_RerunMakesNewSolution ==
    /\ \A i, j \in 1..Len(completed) :
           i # j => completed[i].cluster_solution_id # completed[j].cluster_solution_id
    /\ \A i \in 1..Len(completed) : completed[i].rows \subseteq clusters.rows

\* C11: after a run aborted (a clustering precondition or a storage write
\* failed, at whatever cell), every cluster solution that was committed
\* before the run started is still in the store with exactly its rows.
C11_AbortKeepsCommittedSolutions ==
    runPc = "failed" =>
        \A i \in 1..Len(completed) :
            VisibleRows(completed[i].cluster_solution_id) = completed[i].rows

\* ------------------------------------------------ claims: the cluster engine
\* The member ids of record c of conversation_cluster_df.
Members(c) ==
    {conversation_cluster_df[c].all_conversation_ids[i] :
         i \in 1..Len(conversation_cluster_df[c].all_conversation_ids)}

RECURSIVE SumOfSizes(_)
SumOfSizes(c) ==
    IF c = 0 THEN 0 ELSE conversation_cluster_df[c].n_conversations + SumOfSizes(c - 1)

C13_KAtLeastNRaises ==
    (n_clusters >= nConvs /\ clusterPc # "loaded") =>
        (clusterPc = "raised" /\ cluster_labels = <<>> /\ conversation_cluster_df = <<>>)

\* C14: the pipeline's K is min(ceil(sqrt(N)), 24): the least K with
\* K*K >= N, or 24 when that exceeds 24; and 1 <= K <= 24 and K <= N.
C14_DefaultKWithinBounds ==
    runPc = "clustered" =>
        /\ \/ n_clusters < 24 /\ n_clusters * n_clusters >= nConvs
                              /\ (n_clusters - 1) * (n_clusters - 1) < nConvs
           \/ n_clusters = 24 /\ 23 * 23 < nConvs
        /\ 1 <= n_clusters
        /\ n_clusters <= 24
        /\ n_clusters <= nConvs

\* C14 witness: an export so large that the ceiling of 24 cuts the count.
C14_Witness ==
    /\ runPc = "clustered"
    /\ n_clusters = 24
    /\ nConvs > 24 * 24

\* ------------------------------------------------------ claims: enrichment
\* C15: a pair whose request failed has null summary and null tags (null
\* title and description when the batch labels clusters), and a pair whose
\* request succeeded has the fields of its own response, whatever failed
\* before or after it.
C15_FailedItemKeepsNullFields ==
    /\ orchPc = "summarized" =>
           /\ Len(enriched) = nItems
           /\ \A i \in 1..nItems :
                  /\ outcome[i] = "failed" =>
                         enriched[i].summary = None /\ enriched[i].tags = None
                  /\ outcome[i] = "ok" =>
                         /\ enriched[i].summary = Some([summary_of_response |-> i])
                         /\ enriched[i].tags = Some(<<[tag_of_response |-> i]>>)
    /\ orchPc = "titled" =>
           /\ Len(enriched) = nItems
           /\ \A i \in 1..nItems :
                  /\ outcome[i] = "failed" =>
                         /\ enriched[i].cluster_title = None
                         /\ enriched[i].cluster_description = None
                  /\ outcome[i] = "ok" =>
                         /\ enriched[i].cluster_title = Some([title_of_response |-> i])
                         /\ enriched[i].cluster_description
                                = Some([description_of_response |-> i])

\* C15 witness: the columns of a batch in which a failed pair stands
\* between two pairs that succeeded.
C15_Witness ==
    /\ orchPc = "summarized"
    /\ \E i, j, k \in 1..nItems :
           /\ i < j /\ j < k
           /\ outcome[i] = "ok" /\ outcome[j] = "failed" /\ outcome[k] = "ok"
           /\ enriched[j].tags = None
           /\ enriched[k].tags # None

\* C16: the embedding stage, which follows enrichment, completes without
\* error and gives a conversation with null tags the text of an empty tag
\* set.
C16_NullTagsAreEmptyTagSet ==
    orchPc \in {"embedded", "embed_raised"} =>
        /\ orchPc = "embedded"
        /\ Len(text_list) = nItems
        /\ \A i \in 1..nItems : enriched[i].tags = None => text_list[i].tags = <<>>

\* ---------------------------------------------------- claims: stage order
\* The place of a stage in the order canonicalize, enrich summaries/tags,
\* embed, cluster, enrich cluster labels, project, persist.
StageRank(stage) ==
    CASE stage = "canonicalize" -> 1
      [] stage = "enrich" -> 2
      [] stage = "embed" -> 3
      [] stage = "cluster" -> 4
      [] stage = "label" -> 5
      [] stage = "project" -> 6
      [] stage = "persist" -> 7

\* C18 as stated: in one run no stage starts before the stage preceding it
\* in the order canonicalize, enrich summaries/tags, embed, cluster, enrich
\* cluster labels, project, persist has finished; the stages started are in
\* that order.
C18_StagesInPipelineOrder ==
    \A i \in 1..(Len(stageLog) - 1) : StageRank(stageLog[i]) <= StageRank(stageLog[i + 1])

\* The order of the cells of the notebook.
NotebookOrder ==
    <<"canonicalize", "persist", "enrich", "persist", "embed", "project", "persist",
      "cluster", "project", "label", "persist">>

\* C18 amended: in one run the stages start in the order canonicalize,
\* persist conversations, enrich summaries/tags, persist them, embed,
\* project the conversations, persist, cluster, project the centroids,
\* enrich cluster labels, persist the clusters; none starts before the one
\* preceding it in this order has finished.
C18_StagesInNotebookOrder ==
    /\ Len(stageLog) <= Len(NotebookOrder)
    /\ \A i \in 1..Len(stageLog) : stageLog[i] = NotebookOrder[i]
    /\ runPc = "done" => stageLog = NotebookOrder

\* C18 witness: a second run of the notebook that went through every stage.
C18_Witness ==
    /\ runPc = "done"
    /\ runsStarted = 2
    /\ stageLog = NotebookOrder

\* ----------------------------------------------------- claims: termination
\* Every pair of the batch is settled: answered or recorded as failed.
AllSettled == \A i \in 1..nItems : outcome[i] \in {"ok", "failed"}

\* C20: no request is attempted more than MaxAttempts times; under fair
\* scheduling the batch call returns, and when it has returned each of the
\* N pairs is in one final state, ok or failed, which it keeps.
C20_BatchTerminates ==
    /\ [](\A i \in 1..nItems : attempts[i] <= MaxAttempts)
    /\ <>(orchPc # "running" /\ AllSettled)
    /\ [](orchPc # "running" => AllSettled)
    /\ [][\A i \in 1..nItems : outcome[i] # "none" => outcome'[i] = outcome[i]]_vars

\* C20 witness: a returned batch in which every attempt of one pair failed
\* and every attempt but the last of another.
C20_Witness ==
    /\ orchPc = "returned"
    /\ AllSettled
    /\ \E i, j \in 1..nItems :
           /\ outcome[i] = "failed" /\ attempts[i] = MaxAttempts
           /\ outcome[j] = "ok" /\ attempts[j] = MaxAttempts

\* ------------------------------------------------ claims: result slots
\* C21: no two workers hold the same pair, and a pair is taken once; slot i
\* and the outcome of pair i change only in a step in which the worker that
\* holds pair i finishes it, and only while pair i is unsettled, so each slot
\* is written once; when the batch call has returned no slot is unwritten.
C21_SlotWrittenOnceByItsWorker ==
    /\ [](\A v, w \in Workers : (v # w /\ worker[v] # 0) => worker[v] # worker[w])
    /\ [](orchPc # "running" => \A i \in 1..nItems : outcome[i] # "none")
    /\ [][\A w \in Workers :
              (worker'[w] # worker[w] /\ worker'[w] # 0) =>
                  /\ attempts[worker'[w]] = 0
                  /\ outcome[worker'[w]] = "none"
                  /\ \A v \in Workers : worker[v] # worker'[w]]_vars
    /\ [][\A i \in 1..nItems :
              (results'[i] # results[i] \/ outcome'[i] # outcome[i]) =>
                  /\ outcome[i] = "none"
                  /\ outcome'[i] # "none"
                  /\ \E w \in Workers : worker[w] = i /\ worker'[w] = 0]_vars

\* C21 witness: two workers hold different pairs while the slot of an
\* earlier pair is already written.
C21_Witness ==
    /\ orchPc = "running"
    /\ \E v, w \in Workers : v # w /\ worker[v] # 0 /\ worker[w] # 0 /\ worker[v] # worker[w]
    /\ \E i \in 1..nItems : outcome[i] = "ok" /\ results[i] = Completion(i)

\* ------------------------------------------------------ claims: prompts
\* The number of characters of the markdown that the prompt keeps.
KeptChars == IF Len(conversation_markdown) < max_chars
             THEN Len(conversation_markdown) ELSE max_chars

\* C22: the text of the prompt is the first min(len, budget) characters of
\* the markdown followed by the marker "...": it is never longer than the
\* budget plus the marker, and the marker ends it whether or not any
\* character was cut.
C22_PromptIsPrefixPlusMarker ==
    promptPc = "built" =>
        /\ Len(prompt_text) = KeptChars + 3
        /\ Len(prompt_text) <= max_chars + 3
        /\ \A i \in 1..KeptChars : prompt_text[i] = conversation_markdown[i]
        /\ \A i \in 1..3 : prompt_text[KeptChars + i] = "."

\* C22 witness: a markdown shorter than the budget, not ending in a dot,
\* whose prompt text ends with the marker all the same.
C22_Witness ==
    /\ promptPc = "built"
    /\ Len(conversation_markdown) \in 1..(max_chars - 1)
    /\ conversation_markdown[Len(conversation_markdown)] = "a"
    /\ Len(prompt_text) = Len(conversation_markdown) + 3

\* ---------------------------------------------- claims: cluster metrics
\* The rows of the frame that belong to the cluster of record c.
MemberRows(c) == {i \in 1..nConvs : cluster_labels[i] = c.cluster}

\* The rows whose conversations are the centroid conversations of record c.
CentroidRows(c) ==
    {i \in 1..nConvs :
        \E j \in 1..Len(c.centroid_conversation_ids) :
            c.centroid_conversation_ids[j] = ConversationId(i)}

\* C23: in every cluster record the centroid conversations are members of
\* the cluster, there are exactly min(n_centroid_docs, cluster size) of them,
\* and no member left out is strictly closer to the centroid than one of them.
C23_CentroidIdsAreClosestMembers ==
    clusterPc = "metrics" =>
        \A k \in 1..Len(conversation_cluster_df) :
            LET c == conversation_cluster_df[k]
                n == IF c.n_conversations < n_centroid_docs
                     THEN c.n_conversations ELSE n_centroid_docs
            IN /\ CentroidRows(c) \subseteq MemberRows(c)
               /\ Len(c.centroid_conversation_ids) = n
               /\ Cardinality(CentroidRows(c)) = n
               /\ \A x \in CentroidRows(c) : \A y \in MemberRows(c) \ CentroidRows(c) :
                      distances_to_centroid[y] >= distances_to_centroid[x]

\* C23 witness: a cluster of more members than n_centroid_docs in which a
\* member left out comes before a centroid conversation in row order.
C23_Witness ==
    /\ clusterPc = "metrics"
    /\ \E k \in 1..Len(conversation_cluster_df) :
           LET c == conversation_cluster_df[k]
           IN /\ c.n_conversations > n_centroid_docs
              /\ \E x \in CentroidRows(c) : \E y \in MemberRows(c) \ CentroidRows(c) :
                     y < x /\ distances_to_centroid[y] > distances_to_centroid[x]

\* How often tag t occurs in the tag lists of the members of record c.
TagOccurrences(c, t) ==
    LET tagged == {i \in MemberRows(c) : conversation_tags[i] # None}
    IN Cardinality(UNION {{<<i, j>> : j \in {j \in 1..Len(conversation_tags[i][1]) :
                                                conversation_tags[i][1][j] = t}} :
                          i \in tagged})

RowsWithId(table, id) == {j \in 1..Len(table) : table[j].conversation_id = id}

\* The rows that a step changed.
ChangedRows ==
    {j \in 1..Len(conversations_table) : conversations_table'[j] # conversations_table[j]}

\* C25: no two rows of the conversations table have the same
\* conversation_id; an insert of an id that is in the table leaves the table
\* as it was; an update for a conversation_id changes exactly one row.
C25_ConversationIdIsKey ==
    /\ [](\A i, j \in 1..Len(conversations_table) :
              conversations_table[i].conversation_id = conversations_table[j].conversation_id
                  => i = j)
    /\ [][(tablePc = "created" /\ nextRow' = nextRow + 1
            /\ RowsWithId(conversations_table, conversation_ids[nextRow]) # {})
               => conversations_table' = conversations_table]_vars
    /\ [][(tablePc = "inserted" /\ nextRow' = nextRow + 1)
               => Cardinality(ChangedRows) = 1]_vars

\* ------------------------------------------------- claims: the chain walk
\* The node the walk is at after i moves from node 1 along the first-child
\* links: 0 when the walk has ended, MaxNodes + 1 or more when it has left
\* the mapping.
RECURSIVE WalkNode(_, _)
WalkNode(m, i) ==
    IF i = 0 THEN 1
    ELSE LET k == WalkNode(m, i - 1)
         IN IF k \notin DOMAIN m THEN 0
            ELSE IF m[k].children = <<>> THEN 0 ELSE m[k].children[1]

\* Every child id the walk comes to is a key of the mapping.
WalkStaysInMapping(m) == \A i \in 0..Len(m) : WalkNode(m, i) \in {0} \cup DOMAIN m

\* The walk comes to some node twice.
WalkHasCycle(m) ==
    \E i, j \in 0..Len(m) : i < j /\ WalkNode(m, i) # 0 /\ WalkNode(m, i) = WalkNode(m, j)

\* C26: on a mapping whose first-child links from the root have no cycle
\* and lead to keys of the mapping only, the walk returns, with the chain of
\* the messages on the path; on a mapping whose links have a cycle it never
\* returns, as nothing in the loop remembers the nodes it visited.
C26_WalkTerminatesIffAcyclic ==
    /\ (WalkStaysInMapping(mapping) /\ ~WalkHasCycle(mapping))
           => <>(/\ walkPc = "returned"
                 /\ chain = get_chain_from_node(mapping, 1))
    /\ WalkHasCycle(mapping) => [](walkPc # "returned")

\* C26 witness: a walk that has returned from a path through all the nodes
\* of the mapping, not in dict order.
C26_Witness ==
    /\ walkPc = "returned"
    /\ Len(mapping) = MaxNodes
    /\ Len(chain) = MaxNodes
    /\ chain[2].id > chain[3].id

\* ----------------------------------------------------- claims: front end
\* C27: in every state, a check in flight or not, activeTab is "topic-map"
\* only if hasData is true; and activeTab changes to a tab other than
\* "upload" and "welcome" only in a state where hasData is true.
C27_TopicMapOnlyWithData ==
    /\ [](activeTab = "topic-map" => hasData)
    /\ [][(activeTab' # activeTab /\ activeTab' \notin {"upload", "welcome"}) => hasData]_vars

\* C28: a poll response with the status "complete" or "error", or a poll
\* that throws, clears the interval; when the interval is cleared isUploading
\* becomes false; and once the interval is cleared no poll response changes
\* uploadProgress or uploadStatus, whenever it arrives.
C28_NoUpdateAfterPollingStopped ==
    /\ [][\A poll \in polls :
              (poll \notin polls' /\ (IsFinal(poll.response) \/ poll.response = Throws))
                  => pollInterval' = "cleared"]_vars
    /\ [][pollInterval = "cleared" => pollInterval' = "cleared"]_vars
    /\ (pollInterval = "cleared") ~> (~isUploading)
    /\ [][pollInterval = "cleared" =>
              (uploadProgress' = uploadProgress /\ uploadStatus' = uploadStatus)]_vars

\* --------------------------------------------- claims: cluster data cache
\* The key of the solution id and the view that request i was sent for.
RequestKey(i) == cacheKey(requests[i].solution, requests[i].view)

\* The key of the request sent last.
SentKey == RequestKey(Len(requests))

\* The key of the solution and the view that are shown now.
ShownKey == cacheKey(activeClusterSolutionId[1], scatterplotView)

\* C29: when the fetch of a request resolves, the data it returned is in the
\* cache under the key of the solution id and the view the request was sent
\* for, whatever solution and view are shown by then, and every entry under
\* another key is still there with the same data; so every entry holds the
\* data of the solution and the view of its key.
C29_DataStoredUnderIssuingKey ==
    /\ [](\A i \in 1..Len(requests) :
              RequestKey(i) \in DOMAIN clusterDataCache
                  => clusterDataCache[RequestKey(i)]
                         = DataOf(requests[i].solution, requests[i].view))
    /\ [][\A i \in pending :
              (i \notin pending' /\ clusterDataCache' # clusterDataCache)
                  => /\ RequestKey(i) \in DOMAIN clusterDataCache'
                     /\ clusterDataCache'[RequestKey(i)]
                            = DataOf(requests[i].solution, requests[i].view)
                     /\ \A k \in DOMAIN clusterDataCache :
                            k # RequestKey(i)
                                => /\ k \in DOMAIN clusterDataCache'
                                   /\ clusterDataCache'[k] = clusterDataCache[k]]_vars
    /\ [][DOMAIN clusterDataCache \subseteq DOMAIN clusterDataCache']_vars

\* C29 witness: the cache holds two entries, the one stored last under a key
\* that is not the key of the solution and view shown now.
C29_Witness ==
    /\ activeClusterSolutionId # None
    /\ Cardinality(DOMAIN clusterDataCache) >= 2
    /\ pending = {}
    /\ requests # <<>>
    /\ SentKey \in DOMAIN clusterDataCache
    /\ SentKey # ShownKey
    /\ ShownKey \in DOMAIN clusterDataCache

\* C30: whenever the tab sends a request, the key it is for is not in the
\* cache and no request for that key is in flight; so no two requests
\* in flight are for the same key.
C30_AtMostOneFetchPerKey ==
    /\ [][Len(requests') > Len(requests)
              => /\ SentKey' \notin DOMAIN clusterDataCache'
                 /\ \A i \in pending : RequestKey(i) # SentKey']_vars
    /\ [](\A i, j \in pending : RequestKey(i) = RequestKey(j) => i = j)
====
